---- MODULE Spec2Model ----
(***************************************************************************)
(* Verification model of the dual-agent message layer:                     *)
(*   - A2AMessageQueue        (src/common/messaging.py)                    *)
(*   - ToolCallHandler bridge (src/common/tool_calling.py)                 *)
(*   - MixedThinkingEngine    (src/phone_agent/thinking_engine.py)         *)
(*   - PhoneAgent             (src/phone_agent/phone_agent.py)             *)
(*   - ComputerAgent          (src/computer_agent/computer_agent.py)       *)
(*   - IntelligentComputerAgent start/stop and form filling                *)
(*                  (src/computer_agent/intelligent_computer_agent.py)     *)
(* Each subsystem has its own specification (SpecQueue, SpecQueueClear,    *)
(* SpecBridge, SpecListen, SpecThink, SpecPhone, SpecAgent, SpecLifecycle, *)
(* SpecAutoFill, SpecFormData, SpecReceive, SpecDrain); the variables of   *)
(* the other subsystems stay at their initial values.                      *)
(***************************************************************************)
EXTENDS Integers, Sequences, FiniteSets, TLC

(***************************************************************************)
(* Bounds of the model                                                     *)
(***************************************************************************)
MaxMsgs == 2
MaxHistory == 2
MaxQueueHandlers == 1
MaxClears == 2
MaxCalls == 2
MaxRegistrations == 2
MaxInbox == 3
MaxCallbackRegs == 2
MaxWakeups == 2
MaxThinks == 1
MaxUtterances == 2
MaxHandled == 2
MaxFormData == 2
MaxSuggested == 2
MaxFormRequests == 2
MaxBrowserCloses == 1
MaxAbandoned == 2
MaxDrained == 2

VARIABLES
    \* ---- A2AMessageQueue ----
    messages,                   \* heap of A2AMessage objects: id -> fields
    phone_to_computer,          \* [created, items]: None or asyncio.Queue of message ids
    computer_to_phone,          \* [created, items]
    message_history,            \* list of message ids (references)
    _phone_message_handlers,    \* list of handler kinds
    _computer_message_handlers, \* list of handler kinds
    receiver_pc,                \* per receive method: position of its one caller
    handler_tasks,              \* tasks created by asyncio.create_task in receive
    sent,                       \* history: per channel, ids in send order
    returned,                   \* history: per channel, what receive returned
    receive_error,              \* history: a receive call raised or never returned
    history_stamp,              \* history: the source stamped at each recorded send
    clears,                     \* number of clear_queues calls so far
    last_clear,                 \* history: what the last clear_queues found, how it ended
    \* ---- ToolCallHandler bridge ----
    _agent_handlers,            \* global registry: agent name -> handler object or None
    message_handlers,           \* per handler object: message type -> callback or None
    message_queue,              \* per handler object: its inbox (asyncio.Queue)
    running,                    \* per handler object: the running flag
    loop_pc,                    \* per handler object: position of its start_listening task
    loop_msg,                   \* per handler object: the message its callback is handling
    next_message_id,            \* source of fresh message ids (uuid4)
    tool_call,                  \* the send_message_to_computer_agent call in flight
    calls,                      \* number of send calls made so far
    registrations,              \* number of register_agent_handler calls so far
    callback_regs,              \* number of register_handler calls so far
    last_call,                  \* history: the send call that completed last
    registered_log,             \* history: per agent name, the handlers registered, in order
    warnings,                   \* history: per handler object, "no handler for type" warnings
    taken,                      \* history: per handler object, messages its loop took
    invoked,                    \* history: per handler object, callback invocations
    stopped_running,            \* history: stop() was called while the loop was running
    wakeups_after_stop,         \* history: wake-ups of the timed wait since that stop()
    \* ---- MixedThinkingEngine ----
    conversation_history,       \* list of role-tagged entries; [1] is the system prompt
    think_pc,                   \* position of the think() coroutine
    user_text,                  \* think()'s user_text argument
    tasks,                      \* fast_task and deep_task
    tc_index,                   \* _handle_tool_calls: index of the current tool call
    thinks,                     \* number of think() calls so far
    think_result,               \* history: what the last think() returned
    send_log,                   \* history: paths of think()'s send calls, in order
    first_completed,            \* history: the path whose LLM call ended first
    llm_requests,               \* history: the messages each path passed to the LLM
    history_before,             \* history: conversation_history when think() was called
    \* ---- PhoneAgent ----
    phone_pc,                   \* the utterance handler that awaits think(), or idle
    utterances,                 \* number of utterances processed so far
    phone_actions,              \* ACTION messages the phone agent sent after think()
    dialogue,                   \* history: per utterance, the text and the recorded reply
    phone_state,                \* PhoneAgent.state
    \* ---- ComputerAgent ----
    current_task,               \* the current TaskContext, or None
    agent_state,                \* ComputerAgent.state
    handled,                    \* number of messages handled so far
    last_handled,               \* history: the last message handled and what it caused
    \* ---- start and stop of the two browser-side agents ----
    stop_event,                 \* ComputerAgent.stop_event
    start_pc,                   \* per agent: position of its start()
    stop_pc,                    \* per agent: position of its stop()
    message_task,               \* ComputerAgent: the task of receive_phone_messages
    tool_task,                  \* IntelligentComputerAgent.tool_task
    fill_tasks,                 \* the tasks created for _execute_form_filling_async
    form_data_handled,          \* number of FORM_DATA messages handled so far
    \* ---- ComputerAgent.auto_fill_forms, one run over the suggested actions ----
    fill_runs,                  \* number of runs so far
    fill_run,                   \* history: the suggestions of the last run and what it did
    \* ---- IntelligentComputerAgent, form data and the fill tasks ----
    browser_agent,              \* self.browser_agent is set
    last_filled_fields,         \* the fields of the last fill that completed
    closes,                     \* number of _handle_close_browser_request so far
    form_requests,              \* per message handled: its fields, the position of its
                                \* fill task, and history: the fills run and messages sent
    \* ---- receivers of computer_to_phone under asyncio.wait_for ----
    _getters,                   \* asyncio.Queue._getters: the receivers whose future is queued
    receivers,                  \* per receiver: position, its getter future, a pending cancel
    received,                   \* history: per receiver, the ids its receive calls returned
    abandoned,                  \* history: number of receive calls ended by the timeout
    raced,                      \* history: a timeout hit a receiver put() had already woken
    \* ---- PhoneAgent._check_computer_messages ----
    drain_channel,              \* the messages ComputerAgent has put on computer_to_phone
    drain_log,                  \* history: per message consumed, what the drain did with it
    \* ---- ToolCallHandler.stop ----
    stopped_created             \* history: per handler object, stop() was called between the
                                \* creation of its listen task and the task's first step

queueVars == <<messages, phone_to_computer, computer_to_phone, message_history,
               _phone_message_handlers, _computer_message_handlers, receiver_pc,
               handler_tasks, sent, returned, receive_error, history_stamp, clears,
               last_clear>>

bridgeVars == <<_agent_handlers, message_handlers, message_queue, running, loop_pc,
                loop_msg, next_message_id, tool_call, calls, registrations,
                callback_regs, last_call, registered_log,
                warnings, taken, invoked, stopped_running, wakeups_after_stop>>

phoneVars == <<phone_pc, utterances, phone_actions, dialogue, phone_state>>

thinkVars == <<conversation_history, think_pc, user_text, tasks, tc_index, thinks,
               think_result, send_log, first_completed, llm_requests, history_before,
               phoneVars>>

lifeVars == <<stop_event, start_pc, stop_pc, message_task, tool_task, fill_tasks,
              form_data_handled>>

formVars == <<browser_agent, last_filled_fields, closes, form_requests>>

fillVars == <<fill_runs, fill_run, formVars>>

recvVars == <<_getters, receivers, received, abandoned, raced>>

drainVars == <<drain_channel, drain_log>>

stopVars == <<stopped_created>>

agentCore == <<current_task, agent_state, handled, last_handled>>

agentVars == <<agentCore, lifeVars, fillVars, recvVars, drainVars, stopVars>>

vars == <<queueVars, bridgeVars, thinkVars, agentVars>>

(***************************************************************************)
(* A2AMessageQueue                                                         *)
(***************************************************************************)
MsgIds == 1..MaxMsgs
MessageSource == {"PHONE", "COMPUTER"}
NoMessage == [live |-> FALSE, source |-> "PHONE"]
Channels == {"phone_to_computer", "computer_to_phone"}

\* Coroutine functions a caller may register as handler callbacks.
QueueHandlerKinds == {"ok", "raises", "hangs"}

NoQueue == [created |-> FALSE, items |-> <<>>]

\* asyncio.Queue(): an unbounded FIFO
NewQueue == [created |-> TRUE, items |-> <<>>]

KeepUninitialized(q) == q

_ensure_queues_initialized(q) == IF q.created THEN q ELSE NewQueue

QueuePutLifo(q, m) == [q EXCEPT !.items = <<m>> \o @]

\* await queue.put(message): unbounded queue, appends at the tail, never suspends
QueuePut(q, m) == [q EXCEPT !.items = Append(@, m)]

\* queue.get() with an item available: removes the head
QueueGet(q) == [q EXCEPT !.items = Tail(@)]

\* what clear_queues found and how it ended
NoClear == [outcome |-> "none", phone_to_computer |-> "", computer_to_phone |-> ""]

InitQueueVars ==
    /\ messages = [i \in MsgIds |-> NoMessage]
    /\ phone_to_computer = NoQueue
    /\ computer_to_phone = NoQueue
    /\ message_history = <<>>
    /\ _phone_message_handlers = <<>>
    /\ _computer_message_handlers = <<>>
    /\ receiver_pc = [c \in Channels |-> "idle"]
    /\ handler_tasks = <<>>
    /\ sent = [c \in Channels |-> <<>>]
    /\ returned = [c \in Channels |-> <<>>]
    /\ receive_error = FALSE
    /\ history_stamp = <<>>
    /\ clears = 0
    /\ last_clear = NoClear

\* message.source = MessageSource.X : assignment to the caller's object
Stamp(msgs, id, src) == [msgs EXCEPT ![id].source = src]

\* The argument of a send: a message object the caller has just constructed with
\* a source of its own choice (the next unused id), or an object it already holds.
Argument(id, src) ==
    IF messages[id].live
    THEN messages
    ELSE [messages EXCEPT ![id] = [live |-> TRUE, source |-> src]]

IsArgument(id, src) ==
    /\ \A j \in MsgIds : j < id => messages[j].live
    /\ messages[id].live => src = messages[id].source

send_to_computer(id, src) ==
    /\ UNCHANGED <<bridgeVars, thinkVars, agentVars>>
    /\ UNCHANGED <<clears, last_clear>>
    /\ IsArgument(id, src)
    /\ Len(message_history) < MaxHistory
    /\ messages' = Stamp(Argument(id, src), id, "PHONE")
    /\ message_history' = Append(message_history, id)
    /\ history_stamp' = Append(history_stamp, "PHONE")
    /\ phone_to_computer' = QueuePut(_ensure_queues_initialized(phone_to_computer), id)
    /\ computer_to_phone' = _ensure_queues_initialized(computer_to_phone)
    /\ sent' = [sent EXCEPT !["phone_to_computer"] = Append(@, id)]
    /\ UNCHANGED <<_phone_message_handlers, _computer_message_handlers, receiver_pc,
                   handler_tasks, returned, receive_error>>

send_to_phone(id, src) ==
    /\ UNCHANGED <<bridgeVars, thinkVars, agentVars>>
    /\ UNCHANGED <<clears, last_clear>>
    /\ IsArgument(id, src)
    /\ Len(message_history) < MaxHistory
    /\ messages' = Stamp(Argument(id, src), id, "COMPUTER")
    /\ message_history' = Append(message_history, id)
    /\ history_stamp' = Append(history_stamp, "COMPUTER")
    /\ computer_to_phone' = QueuePut(_ensure_queues_initialized(computer_to_phone), id)
    /\ phone_to_computer' = _ensure_queues_initialized(phone_to_computer)
    /\ sent' = [sent EXCEPT !["computer_to_phone"] = Append(@, id)]
    /\ UNCHANGED <<_phone_message_handlers, _computer_message_handlers, receiver_pc,
                   handler_tasks, returned, receive_error>>

register_phone_message_handler(k) ==
    /\ UNCHANGED <<bridgeVars, thinkVars, agentVars>>
    /\ UNCHANGED <<clears, last_clear>>
    /\ Len(_phone_message_handlers) + Len(_computer_message_handlers) < MaxQueueHandlers
    /\ _phone_message_handlers' = Append(_phone_message_handlers, k)
    /\ UNCHANGED <<history_stamp, messages, phone_to_computer, computer_to_phone, message_history,
                   _computer_message_handlers, receiver_pc, handler_tasks, sent,
                   returned, receive_error>>

register_computer_message_handler(k) ==
    /\ UNCHANGED <<bridgeVars, thinkVars, agentVars>>
    /\ UNCHANGED <<clears, last_clear>>
    /\ Len(_phone_message_handlers) + Len(_computer_message_handlers) < MaxQueueHandlers
    /\ _computer_message_handlers' = Append(_computer_message_handlers, k)
    /\ UNCHANGED <<history_stamp, messages, phone_to_computer, computer_to_phone, message_history,
                   _phone_message_handlers, receiver_pc, handler_tasks, sent,
                   returned, receive_error>>

\* A handler task as created: not yet run.
NewTask(k, id, ch) == [handler |-> k, msg |-> id, channel |-> ch, state |-> "pending"]

\* The fan-out awaits each handler in turn instead of detaching it.
DispatchInline(handlers, id, ch) ==
    [tasks |-> [i \in 1..Len(handlers) |->
                    [NewTask(handlers[i], id, ch) EXCEPT !.state =
                        IF handlers[i] = "ok" THEN "done"
                        ELSE IF handlers[i] = "raises" THEN "raised" ELSE "running"]],
     outcome |-> IF \E i \in 1..Len(handlers) : handlers[i] = "hangs" THEN "blocked"
                 ELSE IF \E i \in 1..Len(handlers) : handlers[i] = "raises" THEN "raised"
                 ELSE "returned"]

\* for handler in handlers: asyncio.create_task(handler(message)); return message
\* handler(message) only builds the coroutine; create_task schedules it for later.
Dispatch(handlers, id, ch) ==
    [tasks |-> [i \in 1..Len(handlers) |-> NewTask(handlers[i], id, ch)],
     outcome |-> "returned"]

\* The part of receive_from_* after queue.get() has an item.
Deliver(ch, q, handlers) ==
    LET id == Head(q.items)
        d == Dispatch(handlers, id, ch)
    IN /\ handler_tasks' = handler_tasks \o d.tasks
       /\ returned' = IF d.outcome = "returned"
                      THEN [returned EXCEPT ![ch] =
                                Append(@, [id |-> id, source |-> messages[id].source,
                                           handlers |-> Len(handlers)])]
                      ELSE returned
       /\ receive_error' = (receive_error \/ d.outcome # "returned")
       /\ receiver_pc' = [receiver_pc EXCEPT ![ch] =
                              IF d.outcome = "blocked" THEN "blocked" ELSE "idle"]

\* receive_from_phone(): called by the computer side
receive_from_phone ==
    /\ UNCHANGED <<bridgeVars, thinkVars, agentVars>>
    /\ UNCHANGED <<clears, last_clear>>
    /\ receiver_pc["phone_to_computer"] = "idle"
    /\ computer_to_phone' = _ensure_queues_initialized(computer_to_phone)
    /\ LET q == _ensure_queues_initialized(phone_to_computer) IN
         IF q.items # <<>>
         THEN /\ phone_to_computer' = QueueGet(q)
              /\ Deliver("phone_to_computer", q, _computer_message_handlers)
         ELSE /\ phone_to_computer' = q
              /\ receiver_pc' = [receiver_pc EXCEPT !["phone_to_computer"] = "waiting"]
              /\ UNCHANGED <<handler_tasks, returned, receive_error>>
    /\ UNCHANGED <<history_stamp, messages, message_history, _phone_message_handlers,
                   _computer_message_handlers, sent>>

\* the suspended queue.get() of receive_from_phone resumes
receive_from_phone_resume ==
    /\ UNCHANGED <<bridgeVars, thinkVars, agentVars>>
    /\ UNCHANGED <<clears, last_clear>>
    /\ receiver_pc["phone_to_computer"] = "waiting"
    /\ phone_to_computer.items # <<>>
    /\ phone_to_computer' = QueueGet(phone_to_computer)
    /\ Deliver("phone_to_computer", phone_to_computer, _computer_message_handlers)
    /\ UNCHANGED <<history_stamp, messages, computer_to_phone, message_history,
                   _phone_message_handlers, _computer_message_handlers, sent>>

\* receive_from_computer(): called by the phone side
receive_from_computer ==
    /\ UNCHANGED <<bridgeVars, thinkVars, agentVars>>
    /\ UNCHANGED <<clears, last_clear>>
    /\ receiver_pc["computer_to_phone"] = "idle"
    /\ phone_to_computer' = _ensure_queues_initialized(phone_to_computer)
    /\ LET q == _ensure_queues_initialized(computer_to_phone) IN
         IF q.items # <<>>
         THEN /\ computer_to_phone' = QueueGet(q)
              /\ Deliver("computer_to_phone", q, _phone_message_handlers)
         ELSE /\ computer_to_phone' = q
              /\ receiver_pc' = [receiver_pc EXCEPT !["computer_to_phone"] = "waiting"]
              /\ UNCHANGED <<handler_tasks, returned, receive_error>>
    /\ UNCHANGED <<history_stamp, messages, message_history, _phone_message_handlers,
                   _computer_message_handlers, sent>>

receive_from_computer_resume ==
    /\ UNCHANGED <<bridgeVars, thinkVars, agentVars>>
    /\ UNCHANGED <<clears, last_clear>>
    /\ receiver_pc["computer_to_phone"] = "waiting"
    /\ computer_to_phone.items # <<>>
    /\ computer_to_phone' = QueueGet(computer_to_phone)
    /\ Deliver("computer_to_phone", computer_to_phone, _phone_message_handlers)
    /\ UNCHANGED <<history_stamp, messages, phone_to_computer, message_history,
                   _phone_message_handlers, _computer_message_handlers, sent>>

\* The event loop starts a handler task created by receive; call_soon keeps
\* the ready tasks in creation order.
RunHandlerTask(i) ==
    /\ UNCHANGED <<bridgeVars, thinkVars, agentVars>>
    /\ UNCHANGED <<clears, last_clear>>
    /\ handler_tasks[i].state = "pending"
    /\ \A j \in 1..(i - 1) : handler_tasks[j].state # "pending"
    /\ handler_tasks' = [handler_tasks EXCEPT ![i].state =
                            IF handler_tasks[i].handler = "ok" THEN "done"
                            ELSE IF handler_tasks[i].handler = "raises" THEN "raised"
                            ELSE "running"]
    /\ UNCHANGED <<history_stamp, messages, phone_to_computer, computer_to_phone, message_history,
                   _phone_message_handlers, _computer_message_handlers, receiver_pc,
                   sent, returned, receive_error>>

\* queue.empty() / queue.get_nowait() on an attribute that is still None raise
Usable(q) == q.created

\* while not q.empty(): try: q.get_nowait() except QueueEmpty: break
RECURSIVE Drain(_)
Drain(q) == IF q.items = <<>> THEN q ELSE Drain(QueueGet(q))

\* how clear_queues saw a channel
Holding(q) == IF ~q.created THEN "None" ELSE IF q.items = <<>> THEN "empty" ELSE "holding"

\* clear_queues(): synchronous, it runs to its end without a suspension point
clear_queues ==
    /\ UNCHANGED <<bridgeVars, thinkVars, agentVars>>
    /\ clears < MaxClears
    /\ clears' = clears + 1
    /\ LET p == _ensure_queues_initialized(phone_to_computer)
           c == _ensure_queues_initialized(computer_to_phone)
       IN IF Usable(p) /\ Usable(c)
          THEN /\ phone_to_computer' = Drain(p)
               /\ computer_to_phone' = Drain(c)
               /\ last_clear' = [outcome |-> "returned",
                                 phone_to_computer |-> Holding(phone_to_computer),
                                 computer_to_phone |-> Holding(computer_to_phone)]
          ELSE /\ UNCHANGED <<phone_to_computer, computer_to_phone>>
               /\ last_clear' = [outcome |-> "raised",
                                 phone_to_computer |-> Holding(phone_to_computer),
                                 computer_to_phone |-> Holding(computer_to_phone)]
    /\ UNCHANGED <<history_stamp, messages, message_history, _phone_message_handlers,
                   _computer_message_handlers, receiver_pc, handler_tasks, sent, returned,
                   receive_error>>

NextQueue ==
    \/ \E id \in MsgIds, src \in MessageSource : send_to_computer(id, src)
    \/ \E id \in MsgIds, src \in MessageSource : send_to_phone(id, src)
    \/ \E k \in QueueHandlerKinds : register_phone_message_handler(k)
    \/ \E k \in QueueHandlerKinds : register_computer_message_handler(k)
    \/ receive_from_phone
    \/ receive_from_phone_resume
    \/ receive_from_computer
    \/ receive_from_computer_resume
    \/ \E i \in 1..Len(handler_tasks) : RunHandlerTask(i)

\* the queue with clear_queues in use
NextQueueClear == NextQueue \/ clear_queues

(***************************************************************************)
(* ToolCallHandler bridge                                                  *)
(***************************************************************************)
\* ToolCallHandler objects; AgentNameOf is the agent_name given at construction.
\* Two objects carry the name computer_agent (an agent built a second time).
Handlers == {1, 2, 3}
NoHandler == 0
AgentNames == {"phone_agent", "computer_agent"}
Recipients == AgentNames \cup {"unknown_agent"}
AgentNameOf(h) == IF h = 1 THEN "phone_agent" ELSE "computer_agent"

MessageType == {"user_input", "system_status", "task_result", "error", "form_data",
                "page_analysis", "task_completion"}
\* message types the callers of the model use, and strings passed to the tools
UsedTypes == {"user_input", "task_result"}
TypeStrings == {"user_input", "task_result", "no_such_type"}
CallbackKinds == {"ok", "raises"}
NoCallback == "None"
NoToolMessage == [message_id |-> 0, message_type |-> "error", sender |-> "", recipient |-> "",
                  from_fast_thinking |-> "absent"]
NoCallRecord == [fn |-> "", recipient |-> "", outcome |-> "", recipient_registered |-> FALSE,
                 sender_lookups |-> 0, recipient_lookups |-> 0, target |-> 0,
                 last_registered |-> 0, message_id |-> 0]
NoCall == [state |-> "idle", message_type |-> "", from_fast_thinking |-> "absent",
           caller |-> ""]

InitBridgeVars ==
    /\ _agent_handlers = [n \in Recipients |-> NoHandler]
    /\ message_handlers = [h \in Handlers |-> [t \in MessageType |-> NoCallback]]
    /\ message_queue = [h \in Handlers |-> <<>>]
    /\ running = [h \in Handlers |-> FALSE]
    /\ loop_pc = [h \in Handlers |-> "none"]
    /\ loop_msg = [h \in Handlers |-> NoToolMessage]
    /\ next_message_id = 1
    /\ tool_call = NoCall
    /\ calls = 0
    /\ registrations = 0
    /\ callback_regs = 0
    /\ last_call = NoCallRecord
    /\ registered_log = [n \in Recipients |-> <<>>]
    /\ warnings = [h \in Handlers |-> 0]
    /\ taken = [h \in Handlers |-> <<>>]
    /\ invoked = [h \in Handlers |-> <<>>]
    /\ stopped_running = [h \in Handlers |-> FALSE]
    /\ wakeups_after_stop = [h \in Handlers |-> 0]
    /\ stopped_created = [h \in Handlers |-> FALSE]

RegistrySetDefault(reg, name, h) ==
    IF reg[name] = NoHandler THEN [reg EXCEPT ![name] = h] ELSE reg

\* _agent_handlers[agent_name] = handler
RegistryPut(reg, name, h) == [reg EXCEPT ![name] = h]

\* _agent_handlers.get(agent_name)
get_agent_handler(name) == _agent_handlers[name]

register_agent_handler(name, h) ==
    /\ registrations < MaxRegistrations
    /\ registrations' = registrations + 1
    /\ _agent_handlers' = RegistryPut(_agent_handlers, name, h)
    /\ registered_log' = [registered_log EXCEPT ![name] = Append(@, h)]
    /\ UNCHANGED <<message_handlers, message_queue, running, loop_pc, loop_msg,
                   callback_regs, next_message_id, tool_call, calls, last_call, warnings, taken, invoked,
                   stopped_running, wakeups_after_stop>>
    /\ UNCHANGED <<queueVars, thinkVars, agentVars>>

\* ToolMessage(message_id=uuid4(), message_type, sender=self.agent_name, recipient, ...)
ToolMessage(h, recipient, mtype, flag) ==
    [message_id |-> next_message_id, message_type |-> mtype, sender |-> AgentNameOf(h),
     recipient |-> recipient, from_fast_thinking |-> flag]

\* receive_message: await self.message_queue.put(message) on an unbounded queue
receive_message_put(mq, h, msg) == [mq EXCEPT ![h] = Append(@, msg)]

\* ToolCallHandler.send_message: what it does to the inboxes, and how it ends
SendMessageQueue(h, recipient, mtype, flag) ==
    IF get_agent_handler(recipient) # NoHandler
    THEN receive_message_put(message_queue, get_agent_handler(recipient),
                             ToolMessage(h, recipient, mtype, flag))
    ELSE message_queue

SendMessageOutcome(recipient) ==
    IF get_agent_handler(recipient) # NoHandler THEN "returned" ELSE "raised"

LastRegistered(name) ==
    IF registered_log[name] = <<>> THEN NoHandler
    ELSE registered_log[name][Len(registered_log[name])]

CallRecord(fn, recipient, outcome, senderLookups, recipientLookups) ==
    [fn |-> fn, recipient |-> recipient, outcome |-> outcome,
     recipient_registered |-> (recipientLookups > 0 /\ get_agent_handler(recipient) # NoHandler),
     sender_lookups |-> senderLookups, recipient_lookups |-> recipientLookups,
     target |-> get_agent_handler(recipient),
     last_registered |-> LastRegistered(recipient),
     message_id |-> next_message_id]

\* A caller awaits handler.send_message(recipient, type, content) directly.
send_message(h, recipient, mtype) ==
    /\ calls < MaxCalls
    /\ calls' = calls + 1
    /\ message_queue' = SendMessageQueue(h, recipient, mtype, "absent")
    /\ next_message_id' = next_message_id + 1
    /\ last_call' = CallRecord("send_message", recipient, SendMessageOutcome(recipient), 0, 1)
    /\ UNCHANGED <<_agent_handlers, message_handlers, running, loop_pc, loop_msg,
                   callback_regs,
                   tool_call, registrations, registered_log, warnings, taken, invoked,
                   stopped_running, wakeups_after_stop>>
    /\ UNCHANGED <<queueVars, thinkVars, agentVars>>

\* MessageType(message_type) if message_type in [t.value for t in MessageType] else default
ToMessageType(str, default) == IF str \in MessageType THEN str ELSE default

ExceptNothing(outcome) == IF outcome = "returned" THEN "success" ELSE outcome

\* try: ... return {"success": True, ...}  except Exception as e: return {"success": False, ...}
ExceptException(outcome) == IF outcome = "returned" THEN "success" ELSE "failure"

\* The part of a tool function after it holds its own agent's handler.
ToolSend(fn, h, recipient, mtype, flag, senderLookups) ==
    /\ message_queue' = SendMessageQueue(h, recipient, mtype, flag)
    /\ next_message_id' = next_message_id + 1
    /\ last_call' = CallRecord(fn, recipient, ExceptException(SendMessageOutcome(recipient)),
                               senderLookups, 1)

\* The tool function returns the failure result without having sent.
ToolFail(fn, recipient, senderLookups) ==
    /\ last_call' = CallRecord(fn, recipient, "failure", senderLookups, 0)
    /\ UNCHANGED <<message_queue, next_message_id>>

\* send_message_to_computer_agent, up to its await asyncio.sleep(0.1) or its return
send_message_to_computer_agent_call(str, flag, caller) ==
    /\ tool_call.state = "idle"
    /\ IF get_agent_handler("phone_agent") = NoHandler
       THEN /\ tool_call' = [state |-> "sleeping", message_type |-> str,
                            from_fast_thinking |-> flag, caller |-> caller]
            /\ UNCHANGED <<message_queue, next_message_id, last_call>>
       ELSE /\ ToolSend("send_message_to_computer_agent", get_agent_handler("phone_agent"),
                        "computer_agent", ToMessageType(str, "user_input"), flag, 1)
            /\ tool_call' = [NoCall EXCEPT !.caller = caller, !.state = "returned"]
    /\ UNCHANGED <<_agent_handlers, message_handlers, running, loop_pc, loop_msg,
                   callback_regs,
                   registrations, registered_log, warnings, taken, invoked,
                   stopped_running, wakeups_after_stop>>

\* send_message_to_computer_agent after the sleep: the second lookup of its own handler
send_message_to_computer_agent_resume ==
    /\ tool_call.state = "sleeping"
    /\ IF get_agent_handler("phone_agent") = NoHandler
       THEN ToolFail("send_message_to_computer_agent", "computer_agent", 2)
       ELSE ToolSend("send_message_to_computer_agent", get_agent_handler("phone_agent"),
                     "computer_agent", ToMessageType(tool_call.message_type, "user_input"),
                     tool_call.from_fast_thinking, 2)
    /\ tool_call' = [NoCall EXCEPT !.caller = tool_call.caller, !.state = "returned"]
    /\ UNCHANGED <<_agent_handlers, message_handlers, running, loop_pc, loop_msg,
                   callback_regs,
                   calls, registrations, registered_log, warnings, taken, invoked, stopped_running,
                   wakeups_after_stop>>

\* The awaiting caller takes the result of send_message_to_computer_agent.
ToolReturn(caller) ==
    /\ tool_call.state = "returned"
    /\ tool_call.caller = caller
    /\ tool_call' = NoCall

\* The computer side calls send_message_to_phone_agent: no suspension, no retry.
send_message_to_phone_agent(str) ==
    /\ calls < MaxCalls
    /\ calls' = calls + 1
    /\ IF get_agent_handler("computer_agent") = NoHandler
       THEN ToolFail("send_message_to_phone_agent", "phone_agent", 1)
       ELSE ToolSend("send_message_to_phone_agent", get_agent_handler("computer_agent"),
                     "phone_agent", ToMessageType(str, "task_result"), "absent", 1)
    /\ UNCHANGED <<_agent_handlers, message_handlers, running, loop_pc, loop_msg,
                   callback_regs,
                   tool_call, registrations, registered_log, warnings, taken, invoked,
                   stopped_running, wakeups_after_stop>>
    /\ UNCHANGED <<queueVars, thinkVars, agentVars>>

\* A caller other than the thinking engine uses send_message_to_computer_agent.
ExternalToolCall(str) ==
    /\ calls < MaxCalls
    /\ calls' = calls + 1
    /\ send_message_to_computer_agent_call(str, "absent", "external")
    /\ UNCHANGED <<queueVars, thinkVars, agentVars>>

ExternalToolResume ==
    /\ tool_call.caller = "external"
    /\ send_message_to_computer_agent_resume
    /\ UNCHANGED <<queueVars, thinkVars, agentVars>>

ExternalToolReturn ==
    /\ ToolReturn("external")
    /\ UNCHANGED <<_agent_handlers, message_handlers, message_queue, running, loop_pc,
                   callback_regs, loop_msg, next_message_id, calls, registrations, last_call,
                   registered_log, warnings,
                   taken, invoked, stopped_running, wakeups_after_stop>>
    /\ UNCHANGED <<queueVars, thinkVars, agentVars>>

NextBridge ==
    \/ \E n \in AgentNames, h \in Handlers : register_agent_handler(n, h)
    \/ \E h \in Handlers, r \in Recipients, t \in UsedTypes : send_message(h, r, t)
    \/ \E str \in TypeStrings : ExternalToolCall(str)
    \/ ExternalToolResume
    \/ ExternalToolReturn
    \/ \E str \in TypeStrings : send_message_to_phone_agent(str)

(***************************************************************************)
(* ToolCallHandler: the listen loop                                        *)
(***************************************************************************)
\* The handler objects whose listen loop the model runs.
ListenHandlers == {2}

listenFrame == <<_agent_handlers, next_message_id, tool_call, calls, registrations,
                 last_call, registered_log>>

\* register_handler: self.message_handlers[message_type] = handler
register_handler(h, t, k) ==
    /\ callback_regs < MaxCallbackRegs
    /\ callback_regs' = callback_regs + 1
    /\ message_handlers' = [message_handlers EXCEPT ![h][t] = k]
    /\ UNCHANGED <<message_queue, running, loop_pc, loop_msg, warnings, taken, invoked,
                   stopped_running, wakeups_after_stop>>
    /\ UNCHANGED listenFrame
    /\ UNCHANGED <<queueVars, thinkVars, agentVars>>

\* receive_message(message): a sender's send_message puts a fresh message in the inbox
receive_message(h, t) ==
    /\ next_message_id <= MaxInbox
    /\ next_message_id' = next_message_id + 1
    /\ message_queue' = receive_message_put(message_queue, h,
                                            ToolMessage(1, AgentNameOf(h), t, "absent"))
    /\ UNCHANGED <<message_handlers, running, loop_pc, loop_msg, callback_regs, warnings,
                   taken, invoked, stopped_running, wakeups_after_stop>>
    /\ UNCHANGED <<_agent_handlers, tool_call, calls, registrations, last_call,
                   registered_log>>
    /\ UNCHANGED <<queueVars, thinkVars, agentVars>>

\* asyncio.create_task(self.tool_handler.start_listening()): the task exists, has not run
start_listening_task(h) ==
    /\ loop_pc[h] = "none"
    /\ loop_pc' = [loop_pc EXCEPT ![h] = "created"]
    /\ UNCHANGED <<message_handlers, message_queue, running, loop_msg, callback_regs,
                   warnings, taken, invoked, stopped_running, wakeups_after_stop>>
    /\ UNCHANGED listenFrame
    /\ UNCHANGED <<queueVars, thinkVars, agentVars>>

LoopConditionTrue(run) == TRUE

\* while self.running
LoopCondition(run) == run

BreakOnError(run, result) ==
    IF result = "caught" THEN "crashed"
    ELSE IF LoopCondition(run) THEN "waiting" ELSE "exited"

\* Where the loop goes after one iteration: back into the timed wait, or out.
\* No result of _handle_message and no timeout leaves the while loop.
NextIteration(run, result) == IF LoopCondition(run) THEN "waiting" ELSE "exited"

\* start_listening begins: self.running = True, then the first timed wait
start_listening(h) ==
    /\ loop_pc[h] = "created"
    /\ running' = [running EXCEPT ![h] = TRUE]
    /\ loop_pc' = [loop_pc EXCEPT ![h] = NextIteration(TRUE, "started")]
    /\ UNCHANGED <<message_handlers, message_queue, loop_msg, callback_regs, warnings,
                   taken, invoked, stopped_running, wakeups_after_stop>>
    /\ UNCHANGED listenFrame
    /\ UNCHANGED <<queueVars, thinkVars, agentVars>>

CountWakeup(h) ==
    wakeups_after_stop' = [wakeups_after_stop EXCEPT ![h] =
                              IF stopped_running[h] THEN @ + 1 ELSE @]

\* wait_for(self.message_queue.get(), timeout=1.0) raises TimeoutError: continue
LoopTimeout(h) ==
    /\ loop_pc[h] = "waiting"
    /\ message_queue[h] = <<>>
    /\ wakeups_after_stop[h] < MaxWakeups
    /\ CountWakeup(h)
    /\ loop_pc' = [loop_pc EXCEPT ![h] = NextIteration(running[h], "timeout")]
    /\ UNCHANGED <<message_handlers, message_queue, running, loop_msg, callback_regs,
                   warnings, taken, invoked, stopped_running>>
    /\ UNCHANGED listenFrame
    /\ UNCHANGED <<queueVars, thinkVars, agentVars>>

DefaultCallback(h, t) ==
    IF message_handlers[h][t] = NoCallback THEN "ok" ELSE message_handlers[h][t]

\* handler = self.message_handlers.get(message.message_type)
HandlerFor(h, t) == message_handlers[h][t]

\* The timed wait returns a message and _handle_message starts: it runs to the
\* warning (no callback), or to the first suspension of the callback.
LoopTake(h) ==
    /\ loop_pc[h] = "waiting"
    /\ message_queue[h] # <<>>
    /\ wakeups_after_stop[h] < MaxWakeups
    /\ CountWakeup(h)
    /\ LET msg == Head(message_queue[h])
           cb == HandlerFor(h, msg.message_type)
       IN /\ message_queue' = [message_queue EXCEPT ![h] = Tail(@)]
          /\ taken' = [taken EXCEPT ![h] =
                          Append(@, [message_id |-> msg.message_id,
                                     registered |-> message_handlers[h][msg.message_type]])]
          /\ IF cb = NoCallback
             THEN /\ warnings' = [warnings EXCEPT ![h] = @ + 1]
                  /\ loop_pc' = [loop_pc EXCEPT ![h] = NextIteration(running[h], "warned")]
                  /\ UNCHANGED <<loop_msg, invoked>>
             ELSE /\ loop_pc' = [loop_pc EXCEPT ![h] = "handling"]
                  /\ loop_msg' = [loop_msg EXCEPT ![h] = msg]
                  /\ invoked' = [invoked EXCEPT ![h] =
                                    Append(@, [message_id |-> msg.message_id,
                                               callback |-> cb])]
                  /\ UNCHANGED warnings
    /\ UNCHANGED <<message_handlers, running, callback_regs, stopped_running>>
    /\ UNCHANGED listenFrame
    /\ UNCHANGED <<queueVars, thinkVars, agentVars>>

\* try: await handler(message)  except Exception: print(...)
HandleResult(cb) == IF cb = "raises" THEN "caught" ELSE "ok"

\* The callback finishes or raises; _handle_message returns and the loop goes on.
LoopCallbackReturn(h) ==
    /\ loop_pc[h] = "handling"
    /\ loop_pc' = [loop_pc EXCEPT ![h] =
                      NextIteration(running[h],
                                    HandleResult(invoked[h][Len(invoked[h])].callback))]
    /\ loop_msg' = [loop_msg EXCEPT ![h] = NoToolMessage]
    /\ UNCHANGED <<message_handlers, message_queue, running, callback_regs, warnings,
                   taken, invoked, stopped_running, wakeups_after_stop>>
    /\ UNCHANGED listenFrame
    /\ UNCHANGED <<queueVars, thinkVars, agentVars>>

\* stop(): self.running = False
stop(h) ==
    /\ running' = [running EXCEPT ![h] = FALSE]
    /\ stopped_running' = [stopped_running EXCEPT ![h] =
                              @ \/ loop_pc[h] \in {"waiting", "handling"}]
    /\ stopped_created' = [stopped_created EXCEPT ![h] = @ \/ loop_pc[h] = "created"]
    /\ UNCHANGED <<message_handlers, message_queue, loop_pc, loop_msg, callback_regs,
                   warnings, taken, invoked, wakeups_after_stop>>
    /\ UNCHANGED listenFrame
    /\ UNCHANGED <<queueVars, thinkVars, agentCore, lifeVars, fillVars, recvVars, drainVars>>

LoopStep(h) ==
    \/ start_listening(h)
    \/ LoopTimeout(h)
    \/ LoopTake(h)
    \/ LoopCallbackReturn(h)

NextListen ==
    \/ \E h \in ListenHandlers, t \in UsedTypes, k \in CallbackKinds : register_handler(h, t, k)
    \/ \E h \in ListenHandlers, t \in UsedTypes : receive_message(h, t)
    \/ \E h \in ListenHandlers : start_listening_task(h)
    \/ \E h \in ListenHandlers : start_listening(h)
    \/ \E h \in ListenHandlers : LoopTimeout(h)
    \/ \E h \in ListenHandlers : LoopTake(h)
    \/ \E h \in ListenHandlers : LoopCallbackReturn(h)
    \/ \E h \in ListenHandlers : stop(h)

(***************************************************************************)
(* MixedThinkingEngine.think                                               *)
(***************************************************************************)
\* Python values: None, a str (sequence of characters), a list
PyNone == [t |-> "None", v |-> <<>>]
PyStr(s) == [t |-> "str", v |-> s]
PyList(l) == [t |-> "list", v |-> l]

\* truth value of a Python value: None, "" and [] are false
Truthy(x) == x.t # "None" /\ x.v # <<>>

RECURSIVE LStrip(_)
LStrip(s) == IF s # <<>> /\ Head(s) = " " THEN LStrip(Tail(s)) ELSE s

RECURSIVE RStrip(_)
RStrip(s) ==
    IF s # <<>> /\ s[Len(s)] = " " THEN RStrip(SubSeq(s, 1, Len(s) - 1)) ELSE s

\* str.strip()
Strip(s) == RStrip(LStrip(s))

\* the fixed replies of the except branches
FastFiller == PyStr(<<"fast-filler">>)
DeepFiller == PyStr(<<"deep-filler">>)
Apology == PyStr(<<"apology">>)

Paths == {"fast", "deep"}

\* tool calls an LLM completion may carry
SendCall == [name |-> "send_message_to_computer_agent", arguments |-> "valid"]
BadArgsCall == [name |-> "send_message_to_computer_agent", arguments |-> "invalid"]
OtherCall == [name |-> "other_tool", arguments |-> "valid"]
ToolCallLists == {<<>>, <<SendCall>>, <<SendCall, SendCall>>, <<OtherCall, SendCall>>,
                  <<BadArgsCall, SendCall>>, <<SendCall, BadArgsCall>>}
Contents == {PyNone, PyStr(<<>>), PyStr(<<" ", "h">>)}
UserTexts == {PyStr(<<>>), PyStr(<<"u">>)}

\* what client.chat.completions.create does: raises (error, timeout) or answers
LLMFailure == [raised |-> TRUE, content |-> PyNone, tool_calls |-> PyNone]
LLMOutcomes ==
    {LLMFailure} \cup
    {[raised |-> FALSE, content |-> c, tool_calls |-> tc] :
        c \in Contents, tc \in {PyNone} \cup {PyList(l) : l \in ToolCallLists}}

NoTask == [state |-> "none", response |-> PyNone, tool_calls |-> PyNone, failed |-> FALSE]
IdlePc == [stage |-> "idle", path |-> ""]
NoResult == [fast |-> PyNone, deep |-> PyNone, returned |-> FALSE, raised |-> FALSE,
             fast_failed |-> FALSE, deep_failed |-> FALSE]

\* {"role": role, "content": content}; suffixes counts the deep-thinking
\* instructions appended to the content
HistoryEntry(role, content) == [role |-> role, content |-> content, suffixes |-> 0]
SystemPrompt == <<"system-prompt">>
NoRequests == [p \in Paths |-> <<>>]

InitThinkVars ==
    /\ conversation_history = <<HistoryEntry("system", SystemPrompt)>>
    /\ think_pc = IdlePc
    /\ user_text = PyStr(<<>>)
    /\ tasks = [p \in Paths |-> NoTask]
    /\ tc_index = 0
    /\ thinks = 0
    /\ think_result = NoResult
    /\ send_log = <<>>
    /\ first_completed = ""
    /\ llm_requests = NoRequests
    /\ history_before = <<>>
    /\ phone_pc = "idle"
    /\ utterances = 0
    /\ phone_actions = <<>>
    /\ dialogue = <<>>
    /\ phone_state = "IDLE"

\* what send_message_to_computer_agent leaves alone, and what think does
toolFrame == <<_agent_handlers, message_handlers, running, loop_pc, loop_msg,
               callback_regs, registrations, registered_log, warnings, taken, invoked,
               stopped_running, wakeups_after_stop>>
thinkBridgeFrame == <<toolFrame, calls>>

AwaitDeepFirst == <<"deep", "fast">>

\* think awaits fast_task, handles its tool calls, then awaits deep_task
AwaitOrder == <<"fast", "deep">>

\* think(): creates both tasks and suspends in its first await
ThinkBegin(text) ==
    /\ think_pc.stage = "idle"
    /\ tool_call.state = "idle"
    /\ phone_pc = "idle"
    /\ user_text' = text
    /\ tasks' = [p \in Paths |-> [NoTask EXCEPT !.state = "created"]]
    /\ think_pc' = [stage |-> "await", path |-> AwaitOrder[1]]
    /\ think_result' = NoResult
    /\ send_log' = <<>>
    /\ first_completed' = ""
    /\ llm_requests' = NoRequests
    /\ tc_index' = 0
    /\ UNCHANGED <<message_queue, next_message_id, tool_call, last_call>>
    /\ UNCHANGED thinkBridgeFrame
    /\ UNCHANGED <<queueVars, agentVars>>

\* think() called on the engine directly
ThinkCall(text) ==
    /\ thinks < MaxThinks
    /\ thinks' = thinks + 1
    /\ ThinkBegin(text)
    /\ history_before' = conversation_history
    /\ UNCHANGED <<conversation_history, phoneVars>>

\* enhanced_messages = messages.copy(); enhanced_messages[0]["content"] += "..."
\* the copy is shallow: the entry is the one of conversation_history
EnhanceSystemPrompt(history) ==
    IF history[1].role = "system"
    THEN [history EXCEPT ![1].suffixes = @ + 1]
    ELSE history

\* A task starts: it runs to its await of client.chat.completions.create.
\* The event loop starts the tasks in the order of their creation.
TaskStart(p) ==
    /\ tasks[p].state = "created"
    /\ p = "deep" => tasks["fast"].state # "created"
    /\ tasks' = [tasks EXCEPT ![p].state = "calling"]
    /\ conversation_history' = IF p = "deep"
                               THEN EnhanceSystemPrompt(conversation_history)
                               ELSE conversation_history
    /\ llm_requests' = [llm_requests EXCEPT ![p] = conversation_history']
    /\ UNCHANGED history_before
    /\ UNCHANGED <<think_pc, user_text, tc_index, thinks, think_result, send_log,
                   first_completed, message_queue, next_message_id, tool_call, last_call>>
    /\ UNCHANGED thinkBridgeFrame
    /\ UNCHANGED <<queueVars, agentVars, phoneVars>>

FailureResultNone(p) == [response |-> PyNone, tool_calls |-> PyNone, failed |-> TRUE]

\* except Exception: return "<filler>", None
FailureResult(p) ==
    [response |-> IF p = "fast" THEN FastFiller ELSE DeepFiller,
     tool_calls |-> PyNone, failed |-> TRUE]

\* content = message.content or ""
ContentOrEmpty(c) == IF Truthy(c) THEN c ELSE PyStr(<<>>)

\* return content.strip(), tool_calls
SuccessResult(o) ==
    [response |-> PyStr(Strip(ContentOrEmpty(o.content).v)),
     tool_calls |-> o.tool_calls, failed |-> FALSE]

\* _fast_think_with_tools / _deep_think_with_tools after the LLM call ended
ThinkWithTools(p, o) == IF o.raised THEN FailureResult(p) ELSE SuccessResult(o)

\* The LLM call of a path ends, in any order relative to the other path's.
TaskComplete(p, o) ==
    /\ tasks[p].state = "calling"
    /\ tasks' = [tasks EXCEPT ![p] =
                    [state |-> "done", response |-> ThinkWithTools(p, o).response,
                     tool_calls |-> ThinkWithTools(p, o).tool_calls,
                     failed |-> ThinkWithTools(p, o).failed]]
    /\ first_completed' = IF first_completed = "" THEN p ELSE first_completed
    /\ UNCHANGED <<conversation_history, think_pc, user_text, tc_index, thinks,
                   think_result, send_log, message_queue, next_message_id, tool_call,
                   last_call>>
    /\ UNCHANGED thinkBridgeFrame
    /\ UNCHANGED <<queueVars, agentVars, phoneVars, llm_requests, history_before>>

\* return fast_response, deep_response
ReturnPair ==
    [fast |-> tasks["fast"].response, deep |-> tasks["deep"].response, returned |-> TRUE,
     raised |-> FALSE, fast_failed |-> tasks["fast"].failed,
     deep_failed |-> tasks["deep"].failed]

\* except Exception: return "抱歉，我现在无法回应。", ""
ReturnApology ==
    [fast |-> Apology, deep |-> PyStr(<<>>), returned |-> TRUE, raised |-> FALSE,
     fast_failed |-> tasks["fast"].failed, deep_failed |-> tasks["deep"].failed]

\* Where think goes when it is done with the path at position i of AwaitOrder.
AfterPath(i) ==
    IF i < Len(AwaitOrder)
    THEN /\ think_pc' = [stage |-> "await", path |-> AwaitOrder[i + 1]]
         /\ UNCHANGED think_result
    ELSE /\ think_pc' = IdlePc
         /\ think_result' = ReturnPair

PositionOf(p) == CHOOSE i \in 1..Len(AwaitOrder) : AwaitOrder[i] = p

AbortsOnFailure(task) == task.failed \/ task.response.t # "str"

\* fast_response[:50] / len(deep_response) raise unless the reply is a str
Aborts(task) == task.response.t # "str"

ShouldHandleAnyText(tool_calls, text) == Truthy(tool_calls)

\* if fast_tool_calls and user_text / if deep_tool_calls and user_text
ShouldHandle(tool_calls, text) == Truthy(tool_calls) /\ Truthy(text)

\* await <path>_task returns; response[:50] is printed; the tool calls are
\* handled if there are any and user_text is not empty
ThinkResume ==
    /\ think_pc.stage = "await"
    /\ tasks[think_pc.path].state = "done"
    /\ IF Aborts(tasks[think_pc.path])
       THEN /\ think_pc' = IdlePc
            /\ think_result' = ReturnApology
            /\ UNCHANGED tc_index
       ELSE IF ShouldHandle(tasks[think_pc.path].tool_calls, user_text)
       THEN /\ think_pc' = [think_pc EXCEPT !.stage = "handle"]
            /\ tc_index' = 1
            /\ UNCHANGED think_result
       ELSE /\ AfterPath(PositionOf(think_pc.path))
            /\ UNCHANGED tc_index
    /\ UNCHANGED <<conversation_history, user_text, tasks, thinks, send_log,
                   first_completed, message_queue, next_message_id, tool_call, last_call>>
    /\ UNCHANGED thinkBridgeFrame
    /\ UNCHANGED <<queueVars, agentVars, phoneVars, llm_requests, history_before>>

\* _handle_tool_calls is done with the tool call at tc_index.
NextToolCall ==
    IF tc_index < Len(tasks[think_pc.path].tool_calls.v)
    THEN /\ tc_index' = tc_index + 1
         /\ UNCHANGED <<think_pc, think_result>>
    ELSE /\ tc_index' = 0
         /\ AfterPath(PositionOf(think_pc.path))

\* from_fast_thinking=True for the fast path's call, False for the deep path's
FromFastFlag(p) == IF p = "fast" THEN "True" ELSE "False"

\* One turn of the for loop of _handle_tool_calls, up to its await of
\* send_message_to_computer_agent: json.loads raising ends the whole loop.
HandleToolCall ==
    /\ think_pc.stage = "handle"
    /\ tool_call.state = "idle"
    /\ LET tc == tasks[think_pc.path].tool_calls.v[tc_index] IN
         IF tc.arguments = "invalid"
         THEN /\ tc_index' = 0
              /\ AfterPath(PositionOf(think_pc.path))
              /\ UNCHANGED <<send_log, message_queue, next_message_id, tool_call, last_call>>
              /\ UNCHANGED toolFrame
         ELSE IF tc.name # "send_message_to_computer_agent"
         THEN /\ NextToolCall
              /\ UNCHANGED <<send_log, message_queue, next_message_id, tool_call, last_call>>
              /\ UNCHANGED toolFrame
         ELSE /\ send_message_to_computer_agent_call("user_input",
                                                     FromFastFlag(think_pc.path), "think")
              /\ send_log' = Append(send_log, think_pc.path)
              /\ UNCHANGED <<think_pc, think_result, tc_index>>
    /\ UNCHANGED <<conversation_history, user_text, tasks, thinks, first_completed, calls>>
    /\ UNCHANGED <<queueVars, agentVars, phoneVars, llm_requests, history_before>>

\* the asyncio.sleep(0.1) of the tool function think awaits is over
ThinkToolResume ==
    /\ tool_call.caller = "think"
    /\ send_message_to_computer_agent_resume
    /\ UNCHANGED <<conversation_history, think_pc, user_text, tasks, tc_index, thinks,
                   think_result, send_log, first_completed>>
    /\ UNCHANGED <<queueVars, agentVars, phoneVars, llm_requests, history_before>>

\* result = await send_message_to_computer_agent(...): printed, then the next tool call
ThinkToolReturn ==
    /\ ToolReturn("think")
    /\ NextToolCall
    /\ UNCHANGED <<conversation_history, user_text, tasks, thinks, send_log,
                   first_completed, message_queue, next_message_id, last_call>>
    /\ UNCHANGED thinkBridgeFrame
    /\ UNCHANGED <<queueVars, agentVars, phoneVars, llm_requests, history_before>>

\* the handler objects the two agents register under their own names
OwnHandler(n) == IF n = "phone_agent" THEN 1 ELSE 2

ThinkRegister(n) == register_agent_handler(n, OwnHandler(n))

NextThink ==
    \/ \E text \in UserTexts : ThinkCall(text)
    \/ \E p \in Paths : TaskStart(p)
    \/ \E p \in Paths, o \in LLMOutcomes : TaskComplete(p, o)
    \/ ThinkResume
    \/ HandleToolCall
    \/ ThinkToolResume
    \/ ThinkToolReturn
    \/ \E n \in AgentNames : ThinkRegister(n)

(***************************************************************************)
(* PhoneAgent._process_text_input: one utterance                           *)
(***************************************************************************)
\* what the user says; the second one names a form field
Utterances == {PyStr(<<"hi">>), PyStr(<<"email">>)}

\* completions of the LLM in a dialogue: no text, short text, a long analysis
SpokenContents == {PyNone, PyStr(<<" ", "h">>), PyStr(<<"long-analysis">>)}
DialogueOutcomes ==
    {LLMFailure} \cup
    {[raised |-> FALSE, content |-> c, tool_calls |-> tc] :
        c \in SpokenContents, tc \in {PyNone, PyList(<<SendCall>>)}}

\* number of characters of a piece of text
Chars(piece) ==
    CASE piece = "long-analysis" -> 120
      [] piece = "fast-filler" -> 4
      [] piece = "deep-filler" -> 19
      [] piece = "apology" -> 11
      [] OTHER -> 1

RECURSIVE StrLen(_)
StrLen(s) == IF s = <<>> THEN 0 ELSE Chars(Head(s)) + StrLen(Tail(s))

\* len(ai_response) > 100
MinAnalysisLen == 100

AddMessageFront(history, role, content) == <<HistoryEntry(role, content)>> \o history

\* thinking_engine.add_message(role, content)
add_message(history, role, content) == Append(history, HistoryEntry(role, content))

PageContext == <<"page-context">>

\* what the recogniser returns for one recording: text with or without
\* surrounding blanks, or nothing
Transcriptions == {PyStr(<<"hi", " ">>), PyStr(<<"email">>), PyStr(<<" ">>)}

\* print("🤖 AI说: 我没有理解您的意思，请再说一遍。")
FallbackUtterance == <<"fallback">>

\* the user turn, the page context if a page is known, then think(user_text=text);
\* self.state is assigned in __init__ only
ProcessBegin(entry, text, page_known) ==
    /\ utterances < MaxUtterances
    /\ utterances' = utterances + 1
    /\ ThinkBegin(text)
    /\ conversation_history' =
          IF page_known
          THEN add_message(add_message(conversation_history, "user", text.v), "system",
                           PageContext)
          ELSE add_message(conversation_history, "user", text.v)
    /\ history_before' = conversation_history'
    /\ phone_pc' = entry
    /\ dialogue' = Append(dialogue, [user |-> text.v, recorded |-> FALSE, assistant |-> <<>>,
                                     entry |-> entry, done |-> FALSE, spoken |-> <<>>,
                                     shown |-> <<>>])
    /\ UNCHANGED <<thinks, phone_actions, phone_state>>

\* _process_text_input up to its await of think()
process_text_input(text, page_known) == ProcessBegin("text", text, page_known)

\* _process_user_speech up to its await of think():
\* user_text = transcription_result.get("text", "").strip(); nothing is done
\* for an empty user_text
process_user_speech(transcription, page_known) ==
    IF Strip(transcription.v) # <<>>
    THEN ProcessBegin("speech", PyStr(Strip(transcription.v)), page_known)
    ELSE /\ utterances < MaxUtterances
         /\ utterances' = utterances + 1
         /\ phone_pc = "idle"
         /\ think_pc.stage = "idle"
         /\ UNCHANGED <<conversation_history, think_pc, user_text, tasks, tc_index, thinks,
                        think_result, send_log, first_completed, llm_requests,
                        history_before, phone_pc, phone_actions, dialogue, phone_state>>
         /\ UNCHANGED <<queueVars, bridgeVars, agentVars>>

\* fast_response.strip() if fast_response.strip() else deep_response.strip()
FirstNonEmpty(a, b) == IF Strip(a) # <<>> THEN Strip(a) ELSE Strip(b)

\* has_form_keyword or extracted_data
FormRelated(text) == \E i \in 1..Len(text) : text[i] = "email"

\* the A2AMessage of _analyze_and_send_additional_computer_instructions;
\* origin is the path whose text became ai_deep_analysis
AnalyzeFormMessage(text, analysis, origin) ==
    [type |-> "ACTION", action |-> "analyze_form", user_input |-> text,
     ai_deep_analysis |-> analysis, from_deep_thinking |-> TRUE, origin |-> origin]

\* _analyze_and_send_additional_computer_instructions(user_text, ai_response)
additional_computer_instructions(actions, text, analysis, origin) ==
    IF FormRelated(text) /\ analysis # <<>> /\ StrLen(analysis) > MinAnalysisLen
    THEN Append(actions, AnalyzeFormMessage(text, analysis, origin))
    ELSE actions

\* what is shown as the agent's words when both replies are empty: the text
\* entry prints the fallback line, the speech entry prints a warning only
EmptyReplyShown(entry) == IF entry = "text" THEN FallbackUtterance ELSE <<>>

\* after think() returned: the reply is printed and handed to _speak_response,
\* the assistant turn recorded and the additional instruction sent, unless both
\* replies are empty
ProcessResume(entry) ==
    /\ phone_pc = entry
    /\ think_pc = IdlePc
    /\ think_result.returned
    /\ phone_pc' = "idle"
    /\ LET response_text == FirstNonEmpty(think_result.fast.v, think_result.deep.v)
           analysis_text == FirstNonEmpty(think_result.deep.v, think_result.fast.v)
           origin == IF Strip(think_result.deep.v) # <<>> THEN "deep" ELSE "fast"
       IN IF response_text # <<>>
          THEN /\ conversation_history' =
                     add_message(conversation_history, "assistant", analysis_text)
               /\ phone_actions' =
                     additional_computer_instructions(phone_actions, user_text.v,
                                                      analysis_text, origin)
               /\ dialogue' = [dialogue EXCEPT ![Len(dialogue)] =
                                  [@ EXCEPT !.recorded = TRUE, !.assistant = analysis_text,
                                            !.done = TRUE, !.spoken = response_text,
                                            !.shown = response_text]]
          ELSE /\ dialogue' = [dialogue EXCEPT ![Len(dialogue)] =
                                  [@ EXCEPT !.done = TRUE, !.shown = EmptyReplyShown(entry)]]
               /\ UNCHANGED <<conversation_history, phone_actions>>
    /\ UNCHANGED <<think_pc, user_text, tasks, tc_index, thinks, think_result, send_log,
                   first_completed, llm_requests, history_before, utterances, phone_state>>
    /\ UNCHANGED <<queueVars, bridgeVars, agentVars>>

\* _process_text_input after think() returned
ProcessTextResume == ProcessResume("text")

\* _process_user_speech after think() returned
ProcessSpeechResume == ProcessResume("speech")

NextPhone ==
    \/ \E text \in Utterances, page_known \in BOOLEAN : process_text_input(text, page_known)
    \/ \E tr \in Transcriptions, page_known \in BOOLEAN : process_user_speech(tr, page_known)
    \/ \E p \in Paths : TaskStart(p)
    \/ \E p \in Paths, o \in DialogueOutcomes : TaskComplete(p, o)
    \/ ThinkResume
    \/ HandleToolCall
    \/ ThinkToolResume
    \/ ThinkToolReturn
    \/ ProcessTextResume
    \/ ProcessSpeechResume

(***************************************************************************)
(* ComputerAgent: handling of the messages drained from the phone channel  *)
(***************************************************************************)
A2AMessageType == {"INFO", "ERROR", "REQUEST", "STATUS", "ACTION"}
ComputerAgentState == {"IDLE", "NAVIGATING", "ANALYZING", "FILLING_FORM", "WAITING_INPUT",
                       "ERROR"}
TaskIds == {"t1", "t2"}
Urls == {"https://x", "https://y"}
FormFields == {"email"}
FieldValues == {"a", "b"}
Absent == "absent"

\* a dict over the form fields; {} has every key absent
EmptyDict == [f \in FormFields |-> Absent]

\* dict.update: the keys of the argument overwrite
DictUpdate(d, e) == [f \in FormFields |-> IF e[f] # Absent THEN e[f] ELSE d[f]]

\* utterances as word sequences
Texts == {<<"hello">>, <<"email", "a">>, <<"email", "b">>}

\* extract_user_data_from_text: the value that follows a recognised field word
extract_user_data_from_text(text) ==
    [f \in FormFields |->
        IF \E i \in 1..(Len(text) - 1) : text[i] = f /\ text[i + 1] \in FieldValues
        THEN text[(CHOOSE i \in 1..(Len(text) - 1) : text[i] = f /\ text[i + 1] \in FieldValues)
                  + 1]
        ELSE Absent]

NoTaskContext == [task_id |-> "None", goal |-> "", target_url |-> "", user_data |-> EmptyDict,
                  page_analysis |-> "None"]

\* TaskContext(task_id=..., goal=..., target_url=..., user_data=...)
TaskContext(t, goal, url, data) ==
    [task_id |-> t, goal |-> goal, target_url |-> url, user_data |-> data,
     page_analysis |-> "None"]

\* the messages the phone side may put on phone_to_computer
PhoneMessage(type, t, action, url, text, request) ==
    [type |-> type, task_id |-> t, action |-> action, url |-> url, text |-> text,
     request_type |-> request]
PhoneMessages ==
    {PhoneMessage("INFO", t, "", "", text, "") : t \in TaskIds, text \in Texts}
    \cup {PhoneMessage("ACTION", t, "navigate", u, <<>>, "") : t \in TaskIds, u \in Urls}
    \cup {PhoneMessage("ACTION", t, a, "", text, "") :
            t \in TaskIds, a \in {"fill_form", "analyze_form"}, text \in Texts}
    \cup {PhoneMessage("ACTION", t, a, "", <<>>, "") :
            t \in TaskIds, a \in {"click", "scroll", "dance"}}
    \cup {PhoneMessage("REQUEST", t, "", "", <<>>, r) :
            t \in TaskIds,
            r \in {"page_screenshot", "page_analysis", "current_status", "other"}}
    \cup {PhoneMessage("STATUS", t, "", "", <<>>, "") : t \in TaskIds}
NoPhoneMessage == PhoneMessage("", "None", "", "", <<>>, "")

\* what the browser and the page analyzer do during one handling
Environments ==
    [nav : {"ok", "fail", "raise"}, analysis : {"forms", "no_forms", "raise"},
     fill : {"raise", "none", "filled", "missing", "both"}, browser : {"ok", "fail", "raise"}]

\* the parts of the environment a message's handling consults
EnvironmentsOf(m) ==
    [nav : IF m.action = "navigate" THEN {"ok", "fail", "raise"} ELSE {"ok"},
     analysis : IF m.action = "navigate" \/ m.type = "INFO"
                THEN {"forms", "no_forms", "raise"} ELSE {"forms"},
     fill : IF m.type = "INFO" \/ m.action \in {"fill_form", "analyze_form"}
            THEN {"raise", "none", "filled", "missing", "both"} ELSE {"none"},
     browser : IF m.action \in {"click", "scroll"} \/ m.type = "REQUEST"
               THEN {"ok", "fail", "raise"} ELSE {"ok"}]

\* the agent while it handles one message: its context and state, the calls
\* made, the states assigned, the failures met (with the number of messages
\* sent before each) and the messages sent
AgentFrame(task, st) ==
    [task |-> task, state |-> st, entered |-> st, navigations |-> 0, analyses |-> 0,
     trace |-> <<>>, failures |-> <<>>, sent |-> <<>>]

\* await self.message_queue.send_to_phone(create_*_message(..., task_id=t))
SendToPhone(A, type, t) ==
    [A EXCEPT !.sent = Append(@, [type |-> type, task_id |-> t])]

\* self.state = ComputerAgentState.<st>
SetState(A, st) == [A EXCEPT !.state = st, !.trace = Append(@, st)]

\* an awaited browser or analyzer call raised, or reported no success
Failed(A, op) == [A EXCEPT !.failures = Append(@, [op |-> op, at |-> Len(A.sent)])]

SwallowFailure(A, t) == SetState(A, "ERROR")

StayInError(A) == SetState(A, IF A.entered = "ERROR" THEN "ERROR" ELSE "IDLE")

\* self.state = ComputerAgentState.IDLE as the last statement of a try block
Recovered(A) == SetState(A, "IDLE")

\* except Exception: self.state = ERROR; send_to_phone(create_error_message(task_id))
ReportFailure(A, t) == SendToPhone(SetState(A, "ERROR"), "ERROR", t)

analyze_current_page(A, env) ==
    IF A.task = NoTaskContext THEN A
    ELSE LET A1 == [SetState(A, "ANALYZING") EXCEPT !.analyses = @ + 1]
         IN IF env.analysis = "raise"
            THEN SetState(Failed(A1, "analysis"), "ERROR")
            ELSE [A1 EXCEPT !.task.page_analysis = env.analysis]

SkipAutoFill(A, env) == A

auto_fill_forms(A, env) ==
    IF A.task = NoTaskContext \/ A.task.page_analysis = "None" THEN A
    ELSE LET A0 == SetState(A, "FILLING_FORM") IN
         IF env.fill = "raise" THEN SetState(Failed(A0, "fill"), "ERROR")
         ELSE LET A1 == IF env.fill \in {"filled", "both"}
                        THEN SendToPhone(A0, "INFO", A.task.task_id) ELSE A0
              IN IF env.fill \in {"missing", "both"}
                 THEN SetState(SendToPhone(A1, "REQUEST", A.task.task_id), "WAITING_INPUT")
                 ELSE SetState(A1, "IDLE")

\* self.current_task.user_data.update(user_data)
UpdateUserData(task, t, data) == [task EXCEPT !.user_data = DictUpdate(@, data)]

AcknowledgeIfSilent(A, m) == IF A.sent = <<>> THEN SendToPhone(A, "INFO", m.task_id) ELSE A

\* the last statement of either branch of process_user_info: an info message
\* with the task_id of the message handled
Acknowledge(A, m) == SendToPhone(A, "INFO", m.task_id)

process_user_info(A, m, env) ==
    LET user_data == extract_user_data_from_text(m.text) IN
    IF user_data = EmptyDict THEN Acknowledge(A, m)
    ELSE IF A.task # NoTaskContext
    THEN LET A1 == [A EXCEPT !.task = UpdateUserData(A.task, m.task_id, user_data)]
             announce == /\ A1.task.goal = "silent_page_preparation"
                         /\ A1.task.page_analysis = "forms"
             A2 == IF announce
                   THEN SendToPhone(SendToPhone([A1 EXCEPT !.task.goal = "form_filling"],
                                                "INFO", m.task_id), "REQUEST", m.task_id)
                   ELSE A1
             A3 == IF A2.task.page_analysis # "None" THEN auto_fill_forms(A2, env)
                   ELSE auto_fill_forms(analyze_current_page(A2, env), env)
         IN Acknowledge(A3, m)
    ELSE LET A1 == [A EXCEPT !.task = TaskContext(m.task_id, "form_filling", "", user_data)]
         IN Acknowledge(auto_fill_forms(analyze_current_page(A1, env), env), m)

NavigateContextKeep(cur, t, url) ==
    IF cur # NoTaskContext THEN cur ELSE TaskContext(t, "page_navigation_and_analysis", url,
                                                     EmptyDict)

\* navigate_and_analyze: self.current_task = TaskContext(task_id, goal, target_url=url)
NavigateContext(cur, t, url) == TaskContext(t, "page_navigation_and_analysis", url, EmptyDict)

navigate_and_analyze(A, url, t, env) ==
    LET A1 == [SetState(A, "NAVIGATING") EXCEPT !.task = NavigateContext(A.task, t, url),
                                                !.navigations = @ + 1]
    IN IF env.nav # "ok"
       THEN ReportFailure(Failed(A1, "navigate"), t)
       ELSE LET A2 == [SetState(A1, "ANALYZING") EXCEPT !.analyses = @ + 1] IN
            IF env.analysis = "raise"
            THEN ReportFailure(Failed(A2, "analysis"), t)
            ELSE LET A3 == SendToPhone([A2 EXCEPT !.task.page_analysis = env.analysis],
                                       "INFO", t)
                     A4 == IF env.analysis = "forms" THEN SendToPhone(A3, "REQUEST", t)
                           ELSE A3
                 IN Recovered(A4)

\* fill_form_with_data / fill_form_with_extracted_data
fill_form_with_data(A, t, env) ==
    LET A1 == SetState(A, "FILLING_FORM")
    IN IF env.fill = "raise"
       THEN ReportFailure(Failed(A1, "fill"), t)
       ELSE Recovered(SendToPhone(A1, "INFO", t))

execute_action(A, m, env) ==
    CASE m.action = "navigate" -> navigate_and_analyze(A, m.url, m.task_id, env)
      [] m.action = "fill_form" ->
            IF extract_user_data_from_text(m.text) # EmptyDict
            THEN fill_form_with_data(A, m.task_id, env)
            ELSE SendToPhone(A, "INFO", m.task_id)
      [] m.action = "analyze_form" ->
            IF extract_user_data_from_text(m.text) # EmptyDict
            THEN SendToPhone(fill_form_with_data(A, m.task_id, env), "INFO", m.task_id)
            ELSE SendToPhone(A, "INFO", m.task_id)
      [] m.action = "click" ->
            SendToPhone(A, IF env.browser = "ok" THEN "INFO" ELSE "ERROR", m.task_id)
      [] m.action = "scroll" ->
            SendToPhone(A, IF env.browser = "raise" THEN "ERROR" ELSE "INFO", m.task_id)
      [] OTHER -> SendToPhone(A, "ERROR", m.task_id)

handle_request(A, m, env) ==
    CASE m.request_type = "page_screenshot" ->
            SendToPhone(A, IF env.browser = "ok" THEN "INFO" ELSE "ERROR", m.task_id)
      [] m.request_type = "page_analysis" ->
            SendToPhone(A, IF A.task # NoTaskContext /\ A.task.page_analysis # "None"
                           THEN "INFO" ELSE "ERROR", m.task_id)
      [] m.request_type = "current_status" ->
            SendToPhone(A, IF env.browser = "raise" THEN "ERROR" ELSE "STATUS", m.task_id)
      [] OTHER -> A

DispatchPhoneMessage(A, m, env) ==
    CASE m.type = "INFO" -> process_user_info(A, m, env)
      [] m.type = "ACTION" -> execute_action(A, m, env)
      [] m.type = "REQUEST" -> handle_request(A, m, env)
      [] OTHER -> A

InitAgentVars ==
    /\ current_task = NoTaskContext
    /\ agent_state = "IDLE"
    /\ handled = 0
    /\ last_handled = [msg |-> NoPhoneMessage, before |-> NoTaskContext, env_nav |-> "",
                       env_fill |-> "",
                       state_before |-> "IDLE", navigations |-> 0, analyses |-> 0,
                       trace |-> <<>>, failures |-> <<>>, sent |-> <<>>]

\* One turn of receive_phone_messages: the message receive_from_phone returned
\* is handled to the end before the next one is taken.
handle_phone_message(m, env) ==
    /\ handled < MaxHandled
    /\ handled' = handled + 1
    /\ \E A \in {DispatchPhoneMessage(AgentFrame(current_task, agent_state), m, env)} :
         /\ current_task' = A.task
         /\ agent_state' = A.state
         /\ last_handled' = [msg |-> m, before |-> current_task, env_nav |-> env.nav,
                             env_fill |-> env.fill,
                             state_before |-> agent_state,
                             navigations |-> A.navigations, analyses |-> A.analyses,
                             trace |-> A.trace, failures |-> A.failures, sent |-> A.sent]
    /\ UNCHANGED <<queueVars, bridgeVars, thinkVars, lifeVars, fillVars, recvVars, drainVars, stopVars>>

NextAgent == \E m \in PhoneMessages : \E env \in EnvironmentsOf(m) : handle_phone_message(m, env)

(***************************************************************************)
(* start() and stop() of ComputerAgent and IntelligentComputerAgent, and   *)
(* the tasks they create                                                   *)
(***************************************************************************)
BrowserAgents == {"ComputerAgent", "IntelligentComputerAgent"}

\* a task: not created, running, cancel() called on it, finished
TaskStates == {"none", "running", "cancelling", "done"}

FillTaskIds == 1..MaxFormData

InitLifeVars ==
    /\ stop_event = FALSE
    /\ start_pc = [a \in BrowserAgents |-> "none"]
    /\ stop_pc = [a \in BrowserAgents |-> "none"]
    /\ message_task = "none"
    /\ tool_task = "none"
    /\ fill_tasks = [k \in FillTaskIds |-> "none"]
    /\ form_data_handled = 0

lifeFrame == <<queueVars, bridgeVars, thinkVars, agentCore, fillVars, recvVars, drainVars, stopVars>>

\* ComputerAgent.start up to `await self.stop_event.wait()`
ComputerAgentStart(init) ==
    /\ start_pc["ComputerAgent"] = "none"
    /\ stop_event' = FALSE
    /\ IF init = "ok"
       THEN /\ message_task' = "running"
            /\ start_pc' = [start_pc EXCEPT !["ComputerAgent"] = "waiting"]
       ELSE /\ start_pc' = [start_pc EXCEPT !["ComputerAgent"] = "returned"]
            /\ UNCHANGED message_task
    /\ UNCHANGED <<stop_pc, tool_task, fill_tasks, form_data_handled>>
    /\ UNCHANGED lifeFrame

\* task.cancel(): a finished task stays finished
Cancel(task) == IF task = "running" THEN "cancelling" ELSE task

\* start resumes from stop_event.wait(): message_task.cancel(), then gather
ComputerAgentStartCancel ==
    /\ start_pc["ComputerAgent"] = "waiting"
    /\ stop_event
    /\ message_task' = Cancel(message_task)
    /\ start_pc' = [start_pc EXCEPT !["ComputerAgent"] = "gathering"]
    /\ UNCHANGED <<stop_event, stop_pc, tool_task, fill_tasks, form_data_handled>>
    /\ UNCHANGED lifeFrame

\* receive_phone_messages ends: CancelledError reaches it, or its loop
\* condition `not self.stop_event.is_set()` fails
MessageTaskEnd ==
    /\ \/ message_task = "cancelling"
       \/ message_task = "running" /\ stop_event
    /\ message_task' = "done"
    /\ UNCHANGED <<stop_event, start_pc, stop_pc, tool_task, fill_tasks, form_data_handled>>
    /\ UNCHANGED lifeFrame

\* await asyncio.gather(message_task, return_exceptions=True) is over
ComputerAgentStartReturn ==
    /\ start_pc["ComputerAgent"] = "gathering"
    /\ message_task = "done"
    /\ start_pc' = [start_pc EXCEPT !["ComputerAgent"] = "returned"]
    /\ UNCHANGED <<stop_event, stop_pc, message_task, tool_task, fill_tasks,
                   form_data_handled>>
    /\ UNCHANGED lifeFrame

\* ComputerAgent.stop up to `await self.browser.close()`
ComputerAgentStop ==
    /\ stop_pc["ComputerAgent"] = "none"
    /\ stop_event' = TRUE
    /\ stop_pc' = [stop_pc EXCEPT !["ComputerAgent"] = "closing"]
    /\ UNCHANGED <<start_pc, message_task, tool_task, fill_tasks, form_data_handled>>
    /\ UNCHANGED lifeFrame

\* browser.close() is over: stop returns its ActionResult, or the exception
ComputerAgentStopReturn(close) ==
    /\ stop_pc["ComputerAgent"] = "closing"
    /\ stop_pc' = [stop_pc EXCEPT !["ComputerAgent"] =
                      IF close = "ok" THEN "returned" ELSE "raised"]
    /\ UNCHANGED <<stop_event, start_pc, message_task, tool_task, fill_tasks,
                   form_data_handled>>
    /\ UNCHANGED lifeFrame

\* IntelligentComputerAgent.start: creates tool_task and returns without
\* waiting for it
IntelligentStart ==
    /\ start_pc["IntelligentComputerAgent"] = "none"
    /\ stop_pc["IntelligentComputerAgent"] = "none"
    /\ tool_task' = "running"
    /\ start_pc' = [start_pc EXCEPT !["IntelligentComputerAgent"] = "returned"]
    /\ UNCHANGED <<stop_event, stop_pc, message_task, fill_tasks, form_data_handled>>
    /\ UNCHANGED lifeFrame

\* asyncio.create_task(self._execute_form_filling_async(actual_form_fields))
CreateTask(tasks_, k) == [tasks_ EXCEPT ![k] = "running"]

\* the listen loop of tool_task hands a FORM_DATA message to _handle_form_data,
\* which ends in _fill_form_with_extracted_data: with form fields it starts the
\* filling as a task of its own and returns
HandleFormData(has_fields) ==
    /\ tool_task = "running"
    /\ form_data_handled < MaxFormData
    /\ form_data_handled' = form_data_handled + 1
    /\ fill_tasks' = IF has_fields THEN CreateTask(fill_tasks, form_data_handled + 1)
                     ELSE fill_tasks
    /\ UNCHANGED <<stop_event, start_pc, stop_pc, message_task, tool_task>>
    /\ UNCHANGED lifeFrame

\* _execute_form_filling_async runs to its end
FillTaskEnd(k) ==
    /\ fill_tasks[k] = "running"
    /\ fill_tasks' = [fill_tasks EXCEPT ![k] = "done"]
    /\ UNCHANGED <<stop_event, start_pc, stop_pc, message_task, tool_task,
                   form_data_handled>>
    /\ UNCHANGED lifeFrame

\* IntelligentComputerAgent.stop up to `await self.tool_task`:
\* tool_handler.stop(), then tool_task.cancel() if there is a tool_task; no
\* other task is cancelled
IntelligentStop ==
    /\ stop_pc["IntelligentComputerAgent"] = "none"
    /\ tool_task' = Cancel(tool_task)
    /\ stop_pc' = [stop_pc EXCEPT !["IntelligentComputerAgent"] =
                      IF tool_task = "none" THEN "returned" ELSE "awaiting"]
    /\ UNCHANGED <<stop_event, start_pc, message_task, fill_tasks, form_data_handled>>
    /\ UNCHANGED lifeFrame

\* start_listening ends with the CancelledError
ToolTaskEnd ==
    /\ tool_task = "cancelling"
    /\ tool_task' = "done"
    /\ UNCHANGED <<stop_event, start_pc, stop_pc, message_task, fill_tasks,
                   form_data_handled>>
    /\ UNCHANGED lifeFrame

\* `await self.tool_task` is over; the browser resources are closed and stop returns
IntelligentStopReturn ==
    /\ stop_pc["IntelligentComputerAgent"] = "awaiting"
    /\ tool_task = "done"
    /\ stop_pc' = [stop_pc EXCEPT !["IntelligentComputerAgent"] = "returned"]
    /\ UNCHANGED <<stop_event, start_pc, message_task, tool_task, fill_tasks,
                   form_data_handled>>
    /\ UNCHANGED lifeFrame

NextLifecycle ==
    \/ \E init \in {"ok", "fail", "raise"} : ComputerAgentStart(init)
    \/ ComputerAgentStartCancel
    \/ MessageTaskEnd
    \/ ComputerAgentStartReturn
    \/ ComputerAgentStop
    \/ \E close \in {"ok", "raise"} : ComputerAgentStopReturn(close)
    \/ IntelligentStart
    \/ \E has_fields \in BOOLEAN : HandleFormData(has_fields)
    \/ \E k \in FillTaskIds : FillTaskEnd(k)
    \/ IntelligentStop
    \/ ToolTaskEnd
    \/ IntelligentStopReturn

(***************************************************************************)
(* ComputerAgent.auto_fill_forms: the loop over the suggested actions      *)
(***************************************************************************)
\* the element of the page analysis that a suggested action's selector names:
\* a text input, a radio button, a checkbox that the value does not select, or
\* no element at all
FillElements == {"text", "radio", "checkbox_unselected", "absent"}

\* what the browser does with each operation made for one action
BrowserResults == {"ok", "fail", "raise"}

\* one entry of form_suggestion["actions"]
SuggestedActions ==
    [type : {"fill"}, element : FillElements, browser : BrowserResults]
    \cup {[type |-> "click", element |-> "text", browser |-> "ok"]}

SuggestionLists ==
    UNION {[1..n -> SuggestedActions] : n \in 0..MaxSuggested}

\* the browser operations made for one fill action: one type_text for a text
\* input or an element the analysis does not know; for a radio button the two
\* selectors, then the id selector, then the value selector, until a click
\* succeeds; none for a checkbox the value does not select
BrowserOps(a) ==
    CASE a.element = "radio" -> IF a.browser = "fail" THEN 4 ELSE 1
      [] a.element = "checkbox_unselected" -> 0
      [] OTHER -> 1

FillAlwaysSucceeded(a) == TRUE

\* success of one fill action: _fill_element_by_type returns False when a
\* browser operation raised, and True for the checkbox left alone
FillSucceeded(a) == a.element = "checkbox_unselected" \/ a.browser = "ok"

\* browser.type_text(action["selector"], ...) for an element the analysis does
\* not know is awaited in the loop itself: its exception leaves the loop
LeavesLoop(a) == a.type = "fill" /\ a.element = "absent" /\ a.browser = "raise"

NoFillRun == [actions |-> <<>>, missing |-> FALSE, ops |-> <<>>, filled_count |-> 0,
              raised |-> FALSE, reported |-> <<>>, requested |-> FALSE, state |-> "IDLE"]

\* for form_suggestion ...: for action ...: if action["type"] == "fill": ...
RECURSIVE FillLoop(_, _, _)
FillLoop(actions, i, acc) ==
    IF i > Len(actions) THEN acc
    ELSE LET a == actions[i] IN
         IF a.type # "fill" THEN FillLoop(actions, i + 1, [acc EXCEPT !.ops = Append(@, 0)])
         ELSE IF LeavesLoop(a)
         THEN [acc EXCEPT !.ops = Append(@, BrowserOps(a)), !.raised = TRUE]
         ELSE FillLoop(actions, i + 1,
                       [acc EXCEPT !.ops = Append(@, BrowserOps(a)),
                                   !.filled_count = IF FillSucceeded(a) THEN @ + 1 ELSE @])

InitFillVars ==
    /\ fill_runs = 0
    /\ fill_run = NoFillRun

\* auto_fill_forms with a context and a page analysis, applied once to the
\* suggestions drawn: the loop, the report of filled_count if it is positive,
\* the request for the missing data, the state
auto_fill_forms_run(actions, missing) ==
    /\ fill_runs = 0
    /\ fill_runs' = fill_runs + 1
    /\ \E r \in {FillLoop(actions, 1, [NoFillRun EXCEPT !.actions = actions,
                                                         !.missing = missing])} :
          fill_run' =
             IF r.raised THEN [r EXCEPT !.state = "ERROR"]
             ELSE [r EXCEPT !.reported = IF r.filled_count > 0 THEN <<r.filled_count>>
                                         ELSE <<>>,
                            !.requested = missing,
                            !.state = IF missing THEN "WAITING_INPUT" ELSE "IDLE"]
    /\ UNCHANGED <<queueVars, bridgeVars, thinkVars, agentCore, lifeVars, formVars, recvVars,
                   drainVars, stopVars>>

NextAutoFill ==
    \E actions \in SuggestionLists, missing \in BOOLEAN : auto_fill_forms_run(actions, missing)

(***************************************************************************)
(* IntelligentComputerAgent: FORM_DATA, form-bearing USER_INPUT and the    *)
(* fill tasks they start                                                   *)
(***************************************************************************)
FieldDicts == [FormFields -> FieldValues \cup {Absent}]

\* the form data of one message: its form fields, and whether it carries
\* original_user_input
FormDataContents == [fields : FieldDicts, original_user_input : BOOLEAN]

\* fill_agent.run() returned; it raised (the fill returns False); the 30 s
\* wait_for around the fill expired
FillOutcomes == {"ok", "failed", "timeout"}

NewFormRequest(type) ==
    [type |-> type, fields |-> EmptyDict, closes |-> closes, pc |-> "done",
     outcome |-> "none", fills |-> 0, sent |-> <<>>]

InitFormVars ==
    /\ browser_agent = FALSE
    /\ last_filled_fields = EmptyDict
    /\ closes = 0
    /\ form_requests = <<>>

formFrame == <<queueVars, bridgeVars, thinkVars, agentCore, lifeVars, fill_runs, fill_run,
              recvVars, drainVars, stopVars>>

\* self.browser_agent = Agent(...)
_auto_navigate_to_target_url ==
    /\ ~browser_agent
    /\ browser_agent' = TRUE
    /\ UNCHANGED <<last_filled_fields, closes, form_requests, formFrame>>

\* USER_INPUT asking to close the page: the session and last_filled_fields are reset
_handle_close_browser_request ==
    /\ browser_agent
    /\ closes < MaxBrowserCloses
    /\ browser_agent' = FALSE
    /\ last_filled_fields' = EmptyDict
    /\ closes' = closes + 1
    /\ UNCHANGED <<form_requests, formFrame>>

\* the fields with a value; without any, the fields extracted from original_user_input
ActualFormFields(content, extracted) ==
    IF content.fields # EmptyDict THEN content.fields
    ELSE IF content.original_user_input THEN extracted
    ELSE EmptyDict

\* the request after _fill_form_with_extracted_data(form_data) returned: with fields,
\* the "filling started" result and a task created and not awaited; without, a
\* request for more information and the completion notification
_fill_form_with_extracted_data(R, content, extracted) ==
    IF content.fields = EmptyDict /\ ~content.original_user_input
    THEN [R EXCEPT !.sent = Append(@, "error")]
    ELSE LET actual_form_fields == ActualFormFields(content, extracted) IN
         IF actual_form_fields # EmptyDict
         THEN [R EXCEPT !.fields = actual_form_fields,
                        !.sent = Append(@, "task_result"),
                        !.pc = "created"]
         ELSE [R EXCEPT !.sent = @ \o <<"task_result", "task_completion">>]

\* the FORM_DATA callback, to its return
_handle_form_data(content, extracted) ==
    /\ Len(form_requests) < MaxFormRequests
    /\ LET R == NewFormRequest("FORM_DATA") IN
       form_requests' = Append(form_requests,
           IF ~browser_agent THEN [R EXCEPT !.sent = <<"error">>]
           ELSE IF content.fields = EmptyDict /\ ~content.original_user_input
           THEN [R EXCEPT !.sent = <<"error">>]
           ELSE _fill_form_with_extracted_data(R, content, extracted))
    /\ UNCHANGED <<browser_agent, last_filled_fields, closes, formFrame>>

\* the USER_INPUT callback for a text _extract_form_data_from_text finds fields in
_handle_user_input(extracted) ==
    /\ Len(form_requests) < MaxFormRequests
    /\ extracted # EmptyDict
    /\ form_requests' = Append(form_requests,
           _fill_form_with_extracted_data(
               NewFormRequest("USER_INPUT"),
               [fields |-> extracted, original_user_input |-> FALSE], extracted))
    /\ UNCHANGED <<browser_agent, last_filled_fields, closes, formFrame>>

\* the fill task up to fill_agent.run(): fields equal to last_filled_fields are
\* skipped with a message, and reported as filled
_execute_actual_form_filling(k) ==
    /\ k \in DOMAIN form_requests
    /\ form_requests[k].pc = "created"
    /\ form_requests' =
         [form_requests EXCEPT ![k] =
            IF @.fields = last_filled_fields
            THEN [@ EXCEPT !.sent = @ \o <<"task_result", "task_result", "task_completion">>,
                           !.outcome = "skipped",
                           !.pc = "done"]
            ELSE [@ EXCEPT !.fills = @ + 1, !.pc = "filling"]]
    /\ UNCHANGED <<browser_agent, last_filled_fields, closes, formFrame>>

\* the fill task from the end of the fill: last_filled_fields on success, then
\* the result message and the completion notification
_execute_form_filling_async(k, outcome) ==
    /\ k \in DOMAIN form_requests
    /\ form_requests[k].pc = "filling"
    /\ last_filled_fields' = IF outcome = "ok" THEN form_requests[k].fields
                             ELSE last_filled_fields
    /\ form_requests' =
         [form_requests EXCEPT ![k] =
            [@ EXCEPT !.sent = @ \o <<"task_result", "task_completion">>,
                      !.outcome = outcome,
                      !.pc = "done"]]
    /\ UNCHANGED <<browser_agent, closes, formFrame>>

NextFormData ==
    \/ _auto_navigate_to_target_url
    \/ _handle_close_browser_request
    \/ \E content \in FormDataContents, extracted \in FieldDicts :
          _handle_form_data(content, extracted)
    \/ \E extracted \in FieldDicts : _handle_user_input(extracted)
    \/ \E k \in 1..MaxFormRequests : _execute_actual_form_filling(k)
    \/ \E k \in 1..MaxFormRequests, outcome \in FillOutcomes :
          _execute_form_filling_async(k, outcome)

(***************************************************************************)
(* receive_from_computer under asyncio.wait_for, with several receivers    *)
(* message = await self.computer_to_phone.get() is asyncio.Queue.get():    *)
(*   while self.empty(): queue a future in _getters and await it; if the   *)
(*   await raises, cancel the future, take it out of _getters, pass a      *)
(*   wake-up it had received on to the next getter, and re-raise;          *)
(*   return self.get_nowait()                                              *)
(* put() adds the item and wakes the first getter whose future is pending. *)
(* wait_for cancels the task of the receive when its timeout expires.      *)
(***************************************************************************)
Receivers == {1, 2}

NoReceive == [pc |-> "idle", fut |-> "none", must_cancel |-> FALSE]

InitRecvVars ==
    /\ _getters = <<>>
    /\ receivers = [r \in Receivers |-> NoReceive]
    /\ received = [r \in Receivers |-> <<>>]
    /\ abandoned = 0
    /\ raced = FALSE

recvFrame == <<bridgeVars, thinkVars, agentCore, lifeVars, fillVars, drainVars, stopVars,
               _phone_message_handlers, _computer_message_handlers, clears, last_clear>>

\* _wakeup_next(self._getters): futures popped from the left until one that is
\* not done is found; that one gets its result
RECURSIVE _wakeup_next(_, _)
_wakeup_next(getters, rs) ==
    IF getters = <<>> THEN [getters |-> getters, receivers |-> rs]
    ELSE IF rs[Head(getters)].fut = "pending"
    THEN [getters |-> Tail(getters),
          receivers |-> [rs EXCEPT ![Head(getters)].fut = "result"]]
    ELSE _wakeup_next(Tail(getters), rs)

\* self._getters.remove(getter), ValueError ignored
RemoveGetter(getters, r) == SelectSeq(getters, LAMBDA x : x # r)

AbandonedGetTakes(q) == IF q.items = <<>> THEN q ELSE QueueGet(q)

\* the channel after a get() left through its except clause: get_nowait() was
\* not reached
AbandonedGet(q) == q

\* send_to_phone(message) with receivers waiting: put() wakes the next getter
send_to_phone_wake(id, src) ==
    /\ IsArgument(id, src)
    /\ Len(message_history) < MaxHistory
    /\ messages' = Stamp(Argument(id, src), id, "COMPUTER")
    /\ message_history' = Append(message_history, id)
    /\ history_stamp' = Append(history_stamp, "COMPUTER")
    /\ computer_to_phone' = QueuePut(_ensure_queues_initialized(computer_to_phone), id)
    /\ phone_to_computer' = _ensure_queues_initialized(phone_to_computer)
    /\ sent' = [sent EXCEPT !["computer_to_phone"] = Append(@, id)]
    /\ \E w \in {_wakeup_next(_getters, receivers)} :
          /\ _getters' = w.getters
          /\ receivers' = w.receivers
    /\ UNCHANGED <<received, abandoned, raced, handler_tasks, returned, receiver_pc,
                   receive_error, recvFrame>>

\* get_nowait(), the handlers' tasks, return message
ReceiveReturn(r, q) ==
    /\ computer_to_phone' = QueueGet(q)
    /\ Deliver("computer_to_phone", q, _phone_message_handlers)
    /\ received' = [received EXCEPT ![r] = Append(@, Head(q.items))]
    /\ receivers' = [receivers EXCEPT ![r] = NoReceive]

\* wait_for(receive_from_computer(), timeout): the first step of the receive
ReceiveCall(r) ==
    /\ receivers[r].pc = "idle"
    /\ phone_to_computer' = _ensure_queues_initialized(phone_to_computer)
    /\ LET q == _ensure_queues_initialized(computer_to_phone) IN
         IF q.items # <<>>
         THEN /\ ReceiveReturn(r, q)
              /\ UNCHANGED _getters
         ELSE /\ computer_to_phone' = q
              /\ _getters' = Append(_getters, r)
              /\ receivers' = [receivers EXCEPT ![r] =
                                  [pc |-> "waiting", fut |-> "pending", must_cancel |-> FALSE]]
              /\ UNCHANGED <<received, handler_tasks, returned, receiver_pc, receive_error>>
    /\ UNCHANGED <<abandoned, raced, messages, message_history, history_stamp, sent, recvFrame>>

\* the receive resumes with the result of its getter: the loop tests empty() again
ReceiveResume(r) ==
    /\ receivers[r].pc = "waiting"
    /\ receivers[r].fut = "result"
    /\ ~receivers[r].must_cancel
    /\ IF computer_to_phone.items # <<>>
       THEN /\ ReceiveReturn(r, computer_to_phone)
            /\ UNCHANGED _getters
       ELSE /\ _getters' = Append(_getters, r)
            /\ receivers' = [receivers EXCEPT ![r].fut = "pending"]
            /\ UNCHANGED <<computer_to_phone, received, handler_tasks, returned, receiver_pc,
                           receive_error>>
    /\ UNCHANGED <<abandoned, raced, messages, message_history, history_stamp, sent,
                   phone_to_computer, recvFrame>>

\* the timeout of wait_for expires: task.cancel() cancels the getter future if
\* it is pending, and otherwise marks the task to be cancelled at its next step
ReceiveTimeout(r) ==
    /\ receivers[r].pc = "waiting"
    /\ ~receivers[r].must_cancel
    /\ abandoned < MaxAbandoned
    /\ receivers' = [receivers EXCEPT ![r] =
                        IF @.fut = "pending" THEN [@ EXCEPT !.fut = "cancelled"]
                        ELSE [@ EXCEPT !.must_cancel = TRUE]]
    /\ raced' = (raced \/ receivers[r].fut = "result")
    /\ UNCHANGED <<_getters, received, abandoned, computer_to_phone, handler_tasks, returned,
                   receiver_pc, receive_error, messages, message_history, history_stamp,
                   sent, phone_to_computer, recvFrame>>

\* CancelledError is raised at the await of the getter: the except clause of
\* get(), then TimeoutError in the caller of wait_for
ReceiveCancelled(r) ==
    /\ receivers[r].pc = "waiting"
    /\ receivers[r].fut = "cancelled" \/ receivers[r].must_cancel
    /\ computer_to_phone' = AbandonedGet(computer_to_phone)
    /\ LET rest == RemoveGetter(_getters, r)
           ended == [receivers EXCEPT ![r] = NoReceive]
       IN \E w \in {IF computer_to_phone.items # <<>> /\ receivers[r].fut # "cancelled"
                    THEN _wakeup_next(rest, ended)
                    ELSE [getters |-> rest, receivers |-> ended]} :
             /\ _getters' = w.getters
             /\ receivers' = w.receivers
    /\ abandoned' = abandoned + 1
    /\ UNCHANGED <<raced, received, handler_tasks, returned, receiver_pc, receive_error,
                   messages, message_history, history_stamp, sent, phone_to_computer,
                   recvFrame>>

NextReceive ==
    \/ \E id \in MsgIds, src \in MessageSource : send_to_phone_wake(id, src)
    \/ \E r \in Receivers : ReceiveCall(r)
    \/ \E r \in Receivers : ReceiveResume(r)
    \/ \E r \in Receivers : ReceiveTimeout(r)
    \/ \E r \in Receivers : ReceiveCancelled(r)

(***************************************************************************)
(* PhoneAgent._check_computer_messages: the drain of computer_to_phone     *)
(***************************************************************************)
\* a message of ComputerAgent as the drain reads it: its type, what
\* content["data"] holds (nothing; filled_count; a page title, with or without
\* forms; other keys), whether content["text"] has one of the words the drain
\* looks for, whether content["result"] is set
DrainMessages ==
    [type : {"INFO", "STATUS", "ACTION", "ERROR", "REQUEST"},
     data : {"none", "filled_count", "page", "page_forms", "other"},
     keyword : BOOLEAN,
     result : BOOLEAN]

InitDrainVars ==
    /\ drain_channel = <<>>
    /\ drain_log = <<>>

drainFrame == <<queueVars, bridgeVars, thinkVars, agentCore, lifeVars, fillVars, recvVars,
               stopVars>>

\* the computer side puts a message on computer_to_phone
ComputerPuts(m) ==
    /\ Len(drain_channel) + Len(drain_log) < MaxDrained
    /\ drain_channel' = Append(drain_channel, m)
    /\ UNCHANGED <<drain_log, drainFrame>>

\* _speak_response is called for the message
Speaks(m) ==
    \/ m.type = "INFO" /\ m.data = "filled_count"
    \/ m.type = "INFO" /\ m.data = "none" /\ m.keyword
    \/ m.type = "ACTION" /\ m.result

\* current_page_info, current_form_fields or the thinking engine's context is updated
UpdatesContext(m) == m.type = "INFO" /\ m.data \in {"page", "page_forms"}

\* the branches of one iteration: if message.type == INFO ... elif STATUS ... elif ACTION
HandleComputerMessage(m) ==
    [msg |-> m, spoken |-> Speaks(m), context |-> UpdatesContext(m)]

\* while True: message = await wait_for(receive_from_computer(), 0.1) ... until
\* the timeout on the empty channel
_check_computer_messages ==
    /\ drain_channel # <<>>
    /\ drain_log' = drain_log \o
                      [i \in DOMAIN drain_channel |-> HandleComputerMessage(drain_channel[i])]
    /\ drain_channel' = <<>>
    /\ UNCHANGED drainFrame

NextDrain ==
    \/ \E m \in DrainMessages : ComputerPuts(m)
    \/ _check_computer_messages

(***************************************************************************)
(* Specifications                                                          *)
(***************************************************************************)
Init == InitQueueVars /\ InitBridgeVars /\ InitThinkVars /\ InitAgentVars /\ InitLifeVars
        /\ InitFillVars /\ InitFormVars /\ InitRecvVars /\ InitDrainVars

SpecQueue == Init /\ [][NextQueue]_vars

SpecQueueClear == Init /\ [][NextQueueClear]_vars

SpecBridge == Init /\ [][NextBridge]_vars

SpecListen == Init /\ [][NextListen]_vars

\* The event loop resumes the listen task whenever its wait can end: the timer of
\* wait_for fires, a message is in the inbox, or the callback it awaits is done.
SpecThink == Init /\ [][NextThink]_vars

SpecAgent == Init /\ [][NextAgent]_vars

SpecPhone == Init /\ [][NextPhone]_vars

SpecLifecycle == Init /\ [][NextLifecycle]_vars

SpecAutoFill == Init /\ [][NextAutoFill]_vars

SpecFormData == Init /\ [][NextFormData]_vars

SpecReceive == Init /\ [][NextReceive]_vars

SpecDrain == Init /\ [][NextDrain]_vars

FairSpecListen == SpecListen /\ \A h \in ListenHandlers : WF_vars(LoopStep(h))

(***************************************************************************)
(* Properties of the A2AMessageQueue                                       *)
(***************************************************************************)
ChannelItems(ch) ==
    IF ch = "phone_to_computer" THEN phone_to_computer.items ELSE computer_to_phone.items

ReturnedIds(ch) == [i \in 1..Len(returned[ch]) |-> returned[ch][i].id]

RECURSIVE SumHandlers(_)
SumHandlers(rs) == IF rs = <<>> THEN 0 ELSE Head(rs).handlers + SumHandlers(Tail(rs))

\* C1: FIFO per channel. On each directional channel the messages are received
\* in exactly the order in which they were sent on that channel: what the
\* receives have returned so far, followed by what is still queued, is the
\* sequence of sends on that channel. Nothing relates the two channels.
C1_FifoPerChannel ==
    \A ch \in Channels : ReturnedIds(ch) \o ChannelItems(ch) = sent[ch]

\* Two different messages were sent on one channel and both were received.
C1_Witness ==
    \E ch \in Channels :
        /\ Len(returned[ch]) >= 2
        /\ returned[ch][1].id # returned[ch][2].id
        /\ ChannelItems(ch) = <<>>

\* C5: source stamping. Every message that receive_from_phone returns (sent with
\* send_to_computer) has source PHONE when it is delivered, and every message
\* that receive_from_computer returns (sent with send_to_phone) has source
\* COMPUTER, whatever source the caller had set.
C5_DeliveredSourceStamped ==
    /\ \A i \in 1..Len(returned["phone_to_computer"]) :
           returned["phone_to_computer"][i].source = "PHONE"
    /\ \A i \in 1..Len(returned["computer_to_phone"]) :
           returned["computer_to_phone"][i].source = "COMPUTER"

ToolFunctions == {"send_message_to_computer_agent", "send_message_to_phone_agent"}

\* The call looked the recipient up and the registry did not hold it.
RecipientAbsent(c) == c.recipient_lookups > 0 /\ ~c.recipient_registered

InboxIds(h) == {message_queue[h][i].message_id : i \in 1..Len(message_queue[h])}

C6_LastRegistrationWins ==
    /\ \A n \in AgentNames : _agent_handlers[n] = LastRegistered(n)
    /\ last_call.outcome \in {"returned", "success"} =>
          /\ last_call.target = last_call.last_registered
          /\ last_call.target # NoHandler
          /\ \A h \in Handlers :
                (last_call.message_id \in InboxIds(h)) <=> (h = last_call.last_registered)
    /\ \A h \in Handlers :
          /\ \A i, j \in 1..Len(message_queue[h]) :
                message_queue[h][i].message_id = message_queue[h][j].message_id => i = j
          /\ \A g \in Handlers : g # h => InboxIds(g) \cap InboxIds(h) = {}

\* A name was registered twice with different handlers and a message was then
\* sent to it.
C6_Witness ==
    /\ last_call.outcome \in {"returned", "success"}
    /\ Len(registered_log[last_call.recipient]) >= 2
    /\ registered_log[last_call.recipient][1] # last_call.target
    /\ last_call.message_id \in InboxIds(last_call.target)
    /\ LastRegistered(last_call.recipient) = last_call.target

\* C7: listen-loop stop. Once stop() has been called on a running listen loop,
\* the loop's timed inbox wait wakes up at most once more, the loop never
\* enters the wait again after that wake-up, and the loop exits.
C7_StopExits ==
    \A h \in ListenHandlers :
        /\ [](stopped_running[h] =>
                /\ wakeups_after_stop[h] <= 1
                /\ loop_pc[h] = "waiting" => wakeups_after_stop[h] = 0)
        /\ (stopped_running[h] ~> loop_pc[h] = "exited")

\* The loop was stopped while waiting, woke up once and has exited.
C7_Witness ==
    \E h \in ListenHandlers :
        /\ stopped_running[h]
        /\ wakeups_after_stop[h] = 1
        /\ loop_pc[h] = "exited"

Unregistered(h) == {i \in 1..Len(taken[h]) : taken[h][i].registered = NoCallback}

\* C8: unregistered message types are dropped. For every message the loop took
\* whose type had no registered callback: one warning was logged, no callback
\* was invoked for it, and it is out of the inbox; the loop has not crashed and
\* has exited only if stop() cleared the running flag.
C8_UnregisteredDropped ==
    \A h \in ListenHandlers :
        /\ warnings[h] = Cardinality(Unregistered(h))
        /\ \A i \in Unregistered(h) :
              /\ \A j \in 1..Len(invoked[h]) :
                    invoked[h][j].message_id # taken[h][i].message_id
              /\ taken[h][i].message_id \notin InboxIds(h)
        /\ loop_pc[h] # "crashed"
        /\ loop_pc[h] = "exited" => ~running[h]

\* Three messages of an unregistered type were received and dropped, and the
\* loop is waiting for the next message.
C8_Witness ==
    \E h \in ListenHandlers :
        /\ warnings[h] = 3
        /\ invoked[h] = <<>>
        /\ message_queue[h] = <<>>
        /\ running[h]
        /\ loop_pc[h] = "waiting"

\* C9: a raising callback does not kill the listen loop. The loop is never
\* crashed; it has exited only if stop() cleared the running flag; and while
\* the flag is set a started loop is either in its timed wait, where it takes
\* the next message of the inbox, or inside a callback.
C9_RaisingCallbackSurvived ==
    \A h \in ListenHandlers :
        /\ loop_pc[h] # "crashed"
        /\ loop_pc[h] = "exited" => ~running[h]
        /\ (running[h] /\ loop_pc[h] \notin {"none", "created"}) =>
              loop_pc[h] \in {"waiting", "handling"}
        /\ \A i \in 1..Len(invoked[h]) :
              \E j \in 1..Len(taken[h]) : taken[h][j].message_id = invoked[h][i].message_id

\* A callback raised, and a later message of the inbox was dispatched after it.
C9_Witness ==
    \E h \in ListenHandlers :
        \E i, j \in 1..Len(invoked[h]) :
            /\ i < j
            /\ invoked[h][i].callback = "raises"
            /\ loop_pc[h] = "waiting"
            /\ running[h]

\* C26: once stop() was called on a handler whose listen loop is running, the
\* loop hands no further message to a handler callback.
C26_NoDispatchAfterStop ==
    [][\A h \in ListenHandlers : stopped_running[h] => invoked'[h] = invoked[h]]_vars

\* C39: a stop() called between the creation of the listen task and the
\* task's first step is not lost: the loop exits.
C39_StopBeforeStartExits ==
    \A h \in ListenHandlers : stopped_created[h] ~> loop_pc[h] = "exited"

(***************************************************************************)
(* Properties of MixedThinkingEngine.think                                 *)
(***************************************************************************)
\* C2: within one think() call, every send made for the fast path happens
\* before any send made for the deep path, whichever LLM call ended first.
C2_FastSendsBeforeDeep ==
    \A i \in 1..Len(send_log) : \A j \in 1..Len(send_log) :
        (i < j /\ send_log[i] = "deep") => send_log[j] = "deep"

\* the deep LLM call ended first, and still the fast send preceded the deep one
C2_Witness ==
    /\ think_result.returned
    /\ first_completed = "deep"
    /\ \E i \in 1..Len(send_log) : \E j \in 1..Len(send_log) :
           i < j /\ send_log[i] = "fast" /\ send_log[j] = "deep"

NavigateHandled ==
    last_handled.msg.type = "ACTION" /\ last_handled.msg.action = "navigate"

\* C11 as stated: after a navigate action for task t and url u was handled the
\* current TaskContext has task_id t and target_url u, the navigation and the
\* page analysis were each invoked once, and at least one message was sent back.
C11_NavigateAnalysesOnce ==
    NavigateHandled =>
        /\ current_task # NoTaskContext
        /\ current_task.task_id = last_handled.msg.task_id
        /\ current_task.target_url = last_handled.msg.url
        /\ last_handled.navigations = 1
        /\ last_handled.analyses = 1
        /\ Len(last_handled.sent) >= 1

\* C11 amended: the context has task_id t and target_url u, the navigation was
\* invoked once, the page analysis once if the navigation succeeded and not at
\* all otherwise, and at least one message was sent back for task t.
C11_NavigateCreatesContext ==
    NavigateHandled =>
        /\ current_task # NoTaskContext
        /\ current_task.task_id = last_handled.msg.task_id
        /\ current_task.target_url = last_handled.msg.url
        /\ last_handled.navigations = 1
        /\ last_handled.analyses = (IF last_handled.env_nav = "ok" THEN 1 ELSE 0)
        /\ Len(last_handled.sent) >= 1
        /\ \A i \in 1..Len(last_handled.sent) :
               last_handled.sent[i].task_id = last_handled.msg.task_id

\* a navigate for another task and url than the context in place was handled
C11_Witness ==
    /\ NavigateHandled
    /\ last_handled.before # NoTaskContext
    /\ last_handled.before.task_id # last_handled.msg.task_id
    /\ last_handled.before.target_url # last_handled.msg.url
    /\ last_handled.env_nav = "ok"
    /\ current_task.task_id = last_handled.msg.task_id
    /\ current_task.target_url = last_handled.msg.url

\* C20: a message whose task_id differs from the current context's task_id
\* never writes into that context's user_data.
C20_UserDataCorrelated ==
    (/\ last_handled.before # NoTaskContext
     /\ last_handled.msg.task_id # last_handled.before.task_id
     /\ current_task.task_id = last_handled.before.task_id)
        => current_task.user_data = last_handled.before.user_data

\* C21: a message that bears the task_id of the context in place only merges
\* into user_data: every key present before is present afterwards, and a key
\* the message carries has the message's value afterwards.
C21_UserDataOnlyMerged ==
    (/\ last_handled.before # NoTaskContext
     /\ last_handled.msg.task_id = last_handled.before.task_id)
        => /\ \A f \in FormFields :
                 last_handled.before.user_data[f] # Absent
                     => current_task.user_data[f] # Absent
           /\ last_handled.msg.type = "INFO"
                 => \A f \in FormFields :
                        extract_user_data_from_text(last_handled.msg.text)[f] # Absent
                            => current_task.user_data[f]
                                   = extract_user_data_from_text(last_handled.msg.text)[f]

\* C23: a fill_form action handled while there is no TaskContext sends an
\* error message for its task back to the phone side.
C23_FillWithoutContextReported ==
    (/\ last_handled.msg.type = "ACTION"
     /\ last_handled.msg.action = "fill_form"
     /\ last_handled.before = NoTaskContext)
        => \E i \in 1..Len(last_handled.sent) :
               /\ last_handled.sent[i].type = "ERROR"
               /\ last_handled.sent[i].task_id = last_handled.msg.task_id

InfoHandled == last_handled.msg.type = "INFO"

FillMessages ==
    IF /\ extract_user_data_from_text(last_handled.msg.text) # EmptyDict
       /\ current_task.page_analysis # "None"
    THEN (IF last_handled.env_fill \in {"filled", "both"} THEN 1 ELSE 0)
         + (IF last_handled.env_fill \in {"missing", "both"} THEN 1 ELSE 0)
    ELSE 0

C29_NavigateLifecycle ==
    (NavigateHandled /\ last_handled.failures = <<>>)
        => /\ Len(last_handled.trace) >= 3
           /\ last_handled.trace[1] = "NAVIGATING"
           /\ last_handled.trace[2] = "ANALYZING"
           /\ last_handled.trace[3] = agent_state
           /\ agent_state = "IDLE" => current_task.page_analysis = "no_forms"
           /\ current_task.page_analysis = "forms"
                 => agent_state \in {"WAITING_INPUT", "FILLING_FORM"}

\* a navigate, a fill_form or analyze_form with form data, or an INFO message
\* with user data was handled and nothing failed
OperationSucceeded ==
    /\ last_handled.failures = <<>>
    /\ \/ NavigateHandled
       \/ /\ last_handled.msg.type = "ACTION"
          /\ last_handled.msg.action \in {"fill_form", "analyze_form"}
          /\ extract_user_data_from_text(last_handled.msg.text) # EmptyDict
       \/ /\ InfoHandled
          /\ extract_user_data_from_text(last_handled.msg.text) # EmptyDict

\* C30: when the agent was in ERROR and the next navigate or fill operation
\* succeeds, the agent is in IDLE or WAITING_INPUT afterwards.
C30_ErrorRecoverable ==
    (last_handled.state_before = "ERROR" /\ OperationSucceeded)
        => agent_state \in {"IDLE", "WAITING_INPUT"}

\* a failed navigation left the agent in ERROR and the next navigate succeeded
C30_Witness ==
    /\ handled = 2
    /\ last_handled.state_before = "ERROR"
    /\ NavigateHandled
    /\ last_handled.failures = <<>>
    /\ last_handled.trace = <<"NAVIGATING", "ANALYZING", "IDLE">>
    /\ agent_state = "IDLE"

\* a form-fill operation ran while the last message was handled:
\* fill_form_with_data for a fill_form or analyze_form action with form data,
\* auto_fill_forms for an INFO message with user data once a page analysis exists
FillRan ==
    /\ extract_user_data_from_text(last_handled.msg.text) # EmptyDict
    /\ \/ /\ last_handled.msg.type = "ACTION"
          /\ last_handled.msg.action \in {"fill_form", "analyze_form"}
       \/ InfoHandled /\ current_task.page_analysis # "None"

\* C31: after a form-fill operation that did not raise the state is
\* WAITING_INPUT exactly if required fields are still missing and IDLE
\* otherwise; after one that raised it is ERROR.  For auto_fill_forms and for
\* fill_form_with_data.
C31_FillOutcomeState ==
    FillRan =>
        agent_state = (CASE last_handled.env_fill = "raise" -> "ERROR"
                         [] last_handled.env_fill \in {"missing", "both"} -> "WAITING_INPUT"
                         [] OTHER -> "IDLE")

\* C37: every message sent on computer_to_phone while a phone message is
\* handled carries the task_id of that phone message.
C37_RepliesCarryTaskId ==
    \A i \in DOMAIN last_handled.sent :
        last_handled.sent[i].task_id = last_handled.msg.task_id

\* C38: once a phone message has been handled, the state is IDLE,
\* WAITING_INPUT or ERROR.
C38_QuiescentState ==
    handled > 0 => agent_state \in {"IDLE", "WAITING_INPUT", "ERROR"}

\* a message was handled through ANALYZING and FILLING_FORM
C38_Witness ==
    /\ handled > 0
    /\ \E i, j \in DOMAIN last_handled.trace :
          /\ i < j
          /\ last_handled.trace[i] = "ANALYZING"
          /\ last_handled.trace[j] = "FILLING_FORM"
    /\ agent_state = "WAITING_INPUT"

(***************************************************************************)
(* Properties of the dialogue history                                      *)
(***************************************************************************)
\* the user and assistant turns of a message list, in order
RECURSIVE Turns(_)
Turns(req) ==
    IF req = <<>> THEN <<>>
    ELSE IF Head(req).role \in {"user", "assistant"}
         THEN <<[role |-> Head(req).role, content |-> Head(req).content]>> \o Turns(Tail(req))
         ELSE Turns(Tail(req))

SecondRequest(p) == Len(dialogue) = 2 /\ llm_requests[p] # <<>>

\* C12 as stated: the message list of the second think() call holds the first
\* utterance's user turn, then its assistant turn, then the second user turn.
C12_SecondRequestHasBothTurns ==
    \A p \in Paths :
        SecondRequest(p) =>
            /\ Len(Turns(llm_requests[p])) = 3
            /\ Turns(llm_requests[p])[1] = [role |-> "user", content |-> dialogue[1].user]
            /\ Turns(llm_requests[p])[2].role = "assistant"
            /\ Turns(llm_requests[p])[3] = [role |-> "user", content |-> dialogue[2].user]

\* C12 amended: the list holds the first user turn, then the first assistant
\* turn if the first think() gave a non-empty reply (none is recorded
\* otherwise), then the second user turn.
C12_SecondRequestHasHistory ==
    \A p \in Paths :
        SecondRequest(p) =>
            Turns(llm_requests[p]) =
                <<[role |-> "user", content |-> dialogue[1].user]>>
                \o (IF dialogue[1].recorded
                    THEN <<[role |-> "assistant", content |-> dialogue[1].assistant]>>
                    ELSE <<>>)
                \o <<[role |-> "user", content |-> dialogue[2].user]>>

\* both paths of the second think() were given the first exchange
C12_Witness ==
    /\ \A p \in Paths : SecondRequest(p) /\ Len(Turns(llm_requests[p])) = 3
    /\ dialogue[1].recorded
    /\ dialogue[1].assistant # <<>>

\* C13: when think() has returned, conversation_history is what it was when
\* think() was called: the same entries with the same contents.
C13_ThinkKeepsHistory ==
    (think_result.returned /\ phone_pc = "idle" /\ thinks > 0)
        => conversation_history = history_before

(***************************************************************************)
(* Properties of the sends of think()                                      *)
(***************************************************************************)
\* number of sends of a path recorded in send_log
RECURSIVE SendsBy(_, _)
SendsBy(log, p) ==
    IF log = <<>> THEN 0
    ELSE (IF Head(log) = p THEN 1 ELSE 0) + SendsBy(Tail(log), p)

\* number of sends the handling of a tool call list makes: it stops at the
\* first call whose arguments do not parse
RECURSIVE SendsOf(_)
SendsOf(list) ==
    IF list = <<>> \/ Head(list).arguments = "invalid" THEN 0
    ELSE (IF Head(list).name = "send_message_to_computer_agent" THEN 1 ELSE 0)
         + SendsOf(Tail(list))

\* C14: in one think() call each path sends at most one message.
C14_AtMostOneSendPerPath == \A p \in Paths : SendsBy(send_log, p) <= 1

C16_OriginFlagNamesPath ==
    /\ \A h \in Handlers : \A i \in 1..Len(message_queue[h]) :
           message_queue[h][i].from_fast_thinking \in {"True", "False"}
    /\ \A i \in 1..Len(phone_actions) :
           phone_actions[i].from_deep_thinking = (phone_actions[i].origin = "deep")

\* C32: the voice-side agent starts in IDLE and its state is not IDLE while
\* an utterance is being processed; it is THINKING while think() is in flight.
C32_StateTracksPhase ==
    /\ (phone_pc = "idle" /\ utterances = 0) => phone_state = "IDLE"
    /\ phone_pc # "idle" => phone_state # "IDLE"
    /\ (phone_pc # "idle" /\ think_pc # IdlePc) => phone_state = "THINKING"

\* C22: an utterance for which both thinking paths returned an empty string
\* is answered with the fixed fallback utterance, on the text entry and on the
\* speech entry: it is spoken, or at least shown as the agent's words.
C22_EmptyRepliesGetFallback ==
    \A i \in 1..Len(dialogue) :
        (dialogue[i].done /\ ~dialogue[i].recorded)
            => \/ dialogue[i].spoken = FallbackUtterance
               \/ dialogue[i].shown = FallbackUtterance

OneFailed(p, q) == think_result.returned /\ tasks[p].failed /\ ~tasks[q].failed

\* C17: when the LLM call of one path failed, think() still returns the text
\* of the other path and has made every send that path's tool calls ask for.
C17_SiblingIndependent ==
    \A p \in Paths : \A q \in Paths \ {p} :
        OneFailed(p, q) =>
            /\ (IF q = "fast" THEN think_result.fast ELSE think_result.deep)
                   = tasks[q].response
            /\ tasks[q].response \notin {FastFiller, DeepFiller, Apology}
            /\ SendsBy(send_log, q) =
                   (IF ShouldHandle(tasks[q].tool_calls, user_text)
                    THEN SendsOf(tasks[q].tool_calls.v) ELSE 0)

\* the fast call failed; the deep text was returned and the deep send made
C17_Witness ==
    /\ OneFailed("fast", "deep")
    /\ think_result.deep = PyStr(<<"h">>)
    /\ SendsBy(send_log, "deep") = 1
    /\ \E h \in Handlers : \E i \in 1..Len(message_queue[h]) :
           message_queue[h][i].from_fast_thinking = "False"

(***************************************************************************)
(* Properties of clear_queues and of the recorded messages                 *)
(***************************************************************************)
\* C18: clear_queues returns, without blocking and without error, whatever it
\* finds (queues not yet created, empty or holding messages), and both
\* channels are empty afterwards.
C18_ClearReturnsEmpty ==
    [][clears' # clears =>
          /\ last_clear'.outcome = "returned"
          /\ phone_to_computer' = NewQueue
          /\ computer_to_phone' = NewQueue]_vars

\* clear_queues was called with messages on one channel while the other was
\* empty, and left both empty
C18_Witness ==
    /\ last_clear.outcome = "returned"
    /\ last_clear.phone_to_computer = "holding"
    /\ last_clear.computer_to_phone = "empty"
    /\ phone_to_computer.items = <<>>

\* C19: a message recorded in the history keeps the source it was stamped
\* with when it was enqueued.
C19_RecordedMessageImmutable ==
    \A i \in 1..Len(message_history) :
        messages[message_history[i]].source = history_stamp[i]

(***************************************************************************)
(* Properties of start and stop                                            *)
(***************************************************************************)
Stopped(a) == stop_pc[a] = "returned" /\ start_pc[a] = "returned"

\* C25: once an agent's stop() has returned, and its start() too, no task the
\* agent created is still running: neither its listener task nor a task it
\* started for filling a form.
C25_NoTaskAfterStop ==
    /\ Stopped("ComputerAgent") => message_task \in {"none", "done"}
    /\ Stopped("IntelligentComputerAgent") =>
           /\ tool_task \in {"none", "done"}
           /\ \A k \in FillTaskIds : fill_tasks[k] \in {"none", "done"}

(***************************************************************************)
(* Properties of auto_fill_forms                                           *)
(***************************************************************************)
FillActionsOf(run) == {i \in 1..Len(run.actions) : run.actions[i].type = "fill"}

Filling == {k \in DOMAIN form_requests : form_requests[k].pc = "filling"}

\* C33: the browser-side agent never has two form fills in progress at once.
C33_NoOverlappingFills == Cardinality(Filling) <= 1

\* C34: of two requests with the same form fields, handled with no close of the
\* page between them and no failed fill, at most one runs a browser fill.
C34_DuplicateFillSuppressed ==
    \A j, k \in DOMAIN form_requests :
        (/\ j < k
         /\ form_requests[j].fields # EmptyDict
         /\ form_requests[j].fields = form_requests[k].fields
         /\ form_requests[j].closes = form_requests[k].closes
         /\ form_requests[j].outcome \notin {"failed", "timeout"}
         /\ form_requests[k].outcome \notin {"failed", "timeout"})
        => form_requests[j].fills + form_requests[k].fills <= 1

Notifications(R) == Cardinality({i \in DOMAIN R.sent : R.sent[i] = "task_completion"})

\* C35: a handled FORM_DATA or form-bearing USER_INPUT whose work is over has
\* sent exactly one task_completion notification.
C35_CompletionNotifiedOnce ==
    \A k \in DOMAIN form_requests :
        form_requests[k].pc = "done" => Notifications(form_requests[k]) = 1

(***************************************************************************)
(* Properties of receive_from_computer under a timeout                     *)
(***************************************************************************)
Occurrences(seq, x) == Cardinality({i \in DOMAIN seq : seq[i] = x})

ReturnedOf(c) == [i \in DOMAIN returned[c] |-> returned[c][i].id]

\* C36: every message sent on computer_to_phone is, once per send, either still
\* in the channel or returned by exactly one receive call; a receive ended by
\* its timeout has removed nothing.
C36_NoLossNoDuplication ==
    \A id \in MsgIds :
        Occurrences(sent["computer_to_phone"], id)
          = Occurrences(computer_to_phone.items, id)
            + Occurrences(ReturnedOf("computer_to_phone"), id)

\* a receive was abandoned after put() had woken it, no receive has returned
\* yet, and the message is in the channel
C36_Witness ==
    /\ raced
    /\ abandoned > 0
    /\ \A r \in Receivers : received[r] = <<>> /\ receivers[r].pc = "idle"
    /\ computer_to_phone.items # <<>>

(***************************************************************************)
(* Properties of _check_computer_messages                                  *)
(***************************************************************************)
\* C40: every ERROR or REQUEST message the drain consumes is spoken or updates
\* the voice agent's context.
C40_ErrorsAndRequestsReachUser ==
    \A i \in DOMAIN drain_log :
        drain_log[i].msg.type \in {"ERROR", "REQUEST"}
            => drain_log[i].spoken \/ drain_log[i].context

====
